---- MODULE Spec2Model ----
(***************************************************************************)
(* VisualJSON: the document model (node arena + AST codec), the JSONPath   *)
(* resolver, the structural diff/patch engine and the mutation/undo-redo   *)
(* engine of the zustand store, as a state machine.                        *)
(*                                                                         *)
(* Strings are sequences of one-character strings, so that trimming,       *)
(* escaping, concatenation and parsing are computed as the code computes   *)
(* them.  Node ids (uuids in the code) are positive integers drawn from a  *)
(* counter that never hands out the same id twice.                         *)
(***************************************************************************)
EXTENDS Integers, Sequences, FiniteSets, TLC

(***************************************************************************)
(* Bounds of the model.                                                    *)
(***************************************************************************)
\* ids the uuid generator may hand out after a document is installed
MaxId == 8
\* committed history commands kept on undoStack + redoStack
MaxHist == 1

(***************************************************************************)
(* Characters and strings.                                                 *)
(***************************************************************************)
Lower == {"a","b","c","d","e","f","g","h","i","j","k","l","m",
          "n","o","p","q","r","s","t","u","v","w","x","y","z"}
Upper == {"A","B","C","D","E","F","G","H","I","J","K","L","M",
          "N","O","P","Q","R","S","T","U","V","W","X","Y","Z"}
Digit == {"0","1","2","3","4","5","6","7","8","9"}
DigitSeq == <<"0","1","2","3","4","5","6","7","8","9">>
Whitespace == {" ", "\t", "\n", "\r"}

\* String.prototype.trim
RECURSIVE TrimLeft(_)
TrimLeft(s) ==
    IF s # <<>> /\ Head(s) \in Whitespace THEN TrimLeft(Tail(s)) ELSE s

RECURSIVE TrimRight(_)
TrimRight(s) ==
    IF s # <<>> /\ s[Len(s)] \in Whitespace
    THEN TrimRight(SubSeq(s, 1, Len(s) - 1)) ELSE s

Trim(s) == TrimRight(TrimLeft(s))

\* String(n) for a non-negative integer n
RECURSIVE NumToStr(_)
NumToStr(n) ==
    IF n < 10 THEN <<DigitSeq[n + 1]>>
    ELSE NumToStr(n \div 10) \o <<DigitSeq[(n % 10) + 1]>>

DigitVal(c) == CHOOSE d \in 0..9 : DigitSeq[d + 1] = c

\* Number(s) for a non-empty string of decimal digits
RECURSIVE StrToNum(_)
StrToNum(s) ==
    IF Len(s) = 1 THEN DigitVal(s[1])
    ELSE StrToNum(SubSeq(s, 1, Len(s) - 1)) * 10 + DigitVal(s[Len(s)])

Range(s) == {s[i] : i \in 1..Len(s)}

\* a faulty filter: keeps every id
FilterOutNothing(list, x) == list

\* Array.prototype.filter on a list of ids
RECURSIVE FilterOut(_, _)
FilterOut(list, x) ==
    IF list = <<>> THEN <<>>
    ELSE IF Head(list) = x THEN FilterOut(Tail(list), x)
    ELSE <<Head(list)>> \o FilterOut(Tail(list), x)

\* Array.prototype.indexOf, 1-based; 0 when absent (the code's -1)
IndexOf(list, x) ==
    IF \E i \in 1..Len(list) : list[i] = x
    THEN CHOOSE i \in 1..Len(list) : list[i] = x /\ \A j \in 1..(i - 1) : list[j] # x
    ELSE 0

(***************************************************************************)
(* Raw JSON values.  An object is the ordered list of its own properties,  *)
(* in the order Object.keys / Object.entries enumerate them: array-index   *)
(* keys in ascending numeric order first, then the other keys in insertion *)
(* order.                                                                  *)
(***************************************************************************)
JNull == [t |-> "null", s |-> <<>>, xs |-> <<>>]
JBool(b) == [t |-> "boolean", s |-> IF b THEN <<"t","r","u","e">> ELSE <<"f","a","l","s","e">>, xs |-> <<>>]
JNum(digits) == [t |-> "number", s |-> digits, xs |-> <<>>]
JStr(chars) == [t |-> "string", s |-> chars, xs |-> <<>>]
JArr(items) == [t |-> "array", s |-> <<>>, xs |-> [i \in 1..Len(items) |-> [k |-> <<>>, v |-> items[i]]]]
JEmptyObj == [t |-> "object", s |-> <<>>, xs |-> <<>>]

IsArrayIndexKey(k) ==
    /\ k # <<>>
    /\ \A i \in 1..Len(k) : k[i] \in Digit
    /\ (Len(k) = 1 \/ k[1] # "0")

HasProp(obj, key) == \E i \in 1..Len(obj.xs) : obj.xs[i].k = key
PropIndex(obj, key) == CHOOSE i \in 1..Len(obj.xs) : obj.xs[i].k = key
GetProp(obj, key) == obj.xs[PropIndex(obj, key)].v
ObjKeys(obj) == [i \in 1..Len(obj.xs) |-> obj.xs[i].k]

\* where a new own property lands in the enumeration order
InsertPos(xs, key) ==
    IF IsArrayIndexKey(key)
    THEN Cardinality({i \in 1..Len(xs) :
            IsArrayIndexKey(xs[i].k) /\ StrToNum(xs[i].k) < StrToNum(key)}) + 1
    ELSE Len(xs) + 1

\* obj[key] = value
ObjSet(obj, key, value) ==
    IF HasProp(obj, key)
    THEN [obj EXCEPT !.xs[PropIndex(obj, key)].v = value]
    ELSE LET p == InsertPos(obj.xs, key)
         IN [obj EXCEPT !.xs = SubSeq(obj.xs, 1, p - 1) \o <<[k |-> key, v |-> value]>>
                               \o SubSeq(obj.xs, p, Len(obj.xs))]

\* delete obj[key]
ObjDelete(obj, key) ==
    IF HasProp(obj, key)
    THEN LET p == PropIndex(obj, key)
         IN [obj EXCEPT !.xs = SubSeq(obj.xs, 1, p - 1) \o SubSeq(obj.xs, p + 1, Len(obj.xs))]
    ELSE obj

\* an object literal { k1: v1, k2: v2, ... }
RECURSIVE JObjFrom(_, _)
JObjFrom(obj, pairs) ==
    IF pairs = <<>> THEN obj
    ELSE JObjFrom(ObjSet(obj, pairs[1][1], pairs[1][2]), Tail(pairs))

JObj(pairs) == JObjFrom(JEmptyObj, pairs)

\* deep equality of two JSON values: arrays element by element, objects by
\* key set and value per key whatever the order of their keys
RECURSIVE DeepEqual(_, _)
DeepEqual(a, b) ==
    /\ a.t = b.t
    /\ a.s = b.s
    /\ Len(a.xs) = Len(b.xs)
    /\ IF a.t = "object"
       THEN \A i \in 1..Len(a.xs) :
               /\ HasProp(b, a.xs[i].k)
               /\ DeepEqual(a.xs[i].v, GetProp(b, a.xs[i].k))
       ELSE \A i \in 1..Len(a.xs) : DeepEqual(a.xs[i].v, b.xs[i].v)

(***************************************************************************)
(* Node arena.  A JsonNode: key and children are optional in the code      *)
(* (undefined), modelled by the flags hasKey and hasChildren; parentId 0   *)
(* is the undefined parentId of a root.  A primitive value carries its     *)
(* JavaScript type (vt) and its String() form (s).                         *)
(***************************************************************************)
NoId == 0
VNull == [vt |-> "null", s |-> <<>>]
PrimOfJson(j) == [vt |-> j.t, s |-> j.s]
JsonOfPrim(v) == [t |-> v.vt, s |-> v.s, xs |-> <<>>]

MkNode(id, type, parentId, hasKey, key, value, hasChildren, children) ==
    [id |-> id, type |-> type, parentId |-> parentId, hasKey |-> hasKey, key |-> key,
     value |-> value, hasChildren |-> hasChildren, children |-> children]

EmptyNodes == [i \in {} |-> 0]

(***************************************************************************)
(* AST codec (utils/parser).                                               *)
(***************************************************************************)
\* jsonToAst.parseNode: generateId() is called on entry, before the children
\* are parsed, so ids are handed out in pre-order.  `next` is the next id the
\* generator hands out.  Returns the nodes built and the generator's state.
RECURSIVE parseNode(_, _, _, _, _)
RECURSIVE parseChildren(_, _, _, _, _)
parseNode(value, parentId, hasKey, key, next) ==
    LET id == next
    IN IF value.t \in {"array", "object"}
       THEN LET sub == parseChildren(value.xs, id, value.t = "object", 1, next + 1)
            IN [nodes |-> (id :> MkNode(id, value.t, parentId, hasKey, key, VNull, TRUE, sub.ids))
                          @@ sub.nodes,
                next |-> sub.next]
       ELSE [nodes |-> (id :> MkNode(id, value.t, parentId, hasKey, key,
                                      IF value.t = "null" THEN VNull ELSE PrimOfJson(value),
                                      FALSE, <<>>)),
             next |-> next + 1]

parseChildren(xs, parentId, keyed, i, next) ==
    IF i > Len(xs) THEN [nodes |-> EmptyNodes, ids |-> <<>>, next |-> next]
    ELSE LET one == parseNode(xs[i].v, parentId, keyed, IF keyed THEN xs[i].k ELSE <<>>, next)
             rest == parseChildren(xs, parentId, keyed, i + 1, one.next)
         IN [nodes |-> one.nodes @@ rest.nodes,
             ids |-> <<next>> \o rest.ids,
             next |-> rest.next]

jsonToAstFrom(json, next) ==
    LET built == parseNode(json, NoId, FALSE, <<>>, next)
    IN [doc |-> [rootId |-> next, nodes |-> built.nodes], next |-> built.next]

jsonToAst(json) == jsonToAstFrom(json, 1).doc

\* the truthiness test `childNode.key` of astToJson: undefined and '' are falsy
KeyTruthy(node) == node.hasKey /\ node.key # <<>>

RECURSIVE serializeNode(_, _)
RECURSIVE serializeObject(_, _, _, _)
\* a faulty serializer: a missing node is written as an empty object
serializeMissingAsObject(nodes, nodeId) ==
    IF nodeId \notin DOMAIN nodes THEN JEmptyObj
    ELSE LET node == nodes[nodeId]
             kids == IF node.hasChildren THEN node.children ELSE <<>>
         IN CASE node.type = "object" -> serializeObject(nodes, kids, 1, JEmptyObj)
              [] node.type = "array" ->
                    JArr([i \in 1..Len(kids) |-> serializeNode(nodes, kids[i])])
              [] node.type = "null" -> JNull
              [] OTHER -> JsonOfPrim(node.value)

serializeNode(nodes, nodeId) ==
    IF nodeId \notin DOMAIN nodes THEN JNull
    ELSE LET node == nodes[nodeId]
             kids == IF node.hasChildren THEN node.children ELSE <<>>
         IN CASE node.type = "object" -> serializeObject(nodes, kids, 1, JEmptyObj)
              [] node.type = "array" ->
                    JArr([i \in 1..Len(kids) |-> serializeNode(nodes, kids[i])])
              [] node.type = "null" -> JNull
              [] OTHER -> JsonOfPrim(node.value)

serializeObject(nodes, kids, i, result) ==
    IF i > Len(kids) THEN result
    ELSE LET present == kids[i] \in DOMAIN nodes
         IN IF present /\ KeyTruthy(nodes[kids[i]])
            THEN serializeObject(nodes, kids, i + 1,
                    ObjSet(result, nodes[kids[i]].key, serializeNode(nodes, kids[i])))
            ELSE serializeObject(nodes, kids, i + 1, result)

astToJson(doc) == serializeNode(doc.nodes, doc.rootId)

(***************************************************************************)
(* JSONPath: the restricted grammar $.key['quoted key'][N].                *)
(***************************************************************************)
IdentStart == Lower \cup Upper \cup {"_", "$"}
IdentPart == IdentStart \cup Digit

\* IDENTIFIER_PATTERN = /^[A-Za-z_$][A-Za-z0-9_$]*$/
IsIdentifier(key) ==
    /\ key # <<>>
    /\ key[1] \in IdentStart
    /\ \A i \in 2..Len(key) : key[i] \in IdentPart

\* a faulty escape: backslashes only, quotes left as they are
RECURSIVE escapeBackslashesOnly(_)
escapeBackslashesOnly(key) ==
    IF key = <<>> THEN <<>>
    ELSE (IF Head(key) = "\\" THEN <<"\\", "\\">> ELSE <<Head(key)>>)
         \o escapeBackslashesOnly(Tail(key))

\* key.replace(/\\/g, '\\\\').replace(/'/g, "\\'")
RECURSIVE escapePathKey(_)
escapePathKey(key) ==
    IF key = <<>> THEN <<>>
    ELSE (IF Head(key) = "\\" THEN <<"\\", "\\">>
          ELSE IF Head(key) = "'" THEN <<"\\", "'">>
          ELSE <<Head(key)>>) \o escapePathKey(Tail(key))

appendKeySegment(base, key) ==
    IF IsIdentifier(key) THEN base \o <<".">> \o key
    ELSE base \o <<"[", "'">> \o escapePathKey(key) \o <<"'", "]">>

appendIndexSegment(base, index) == base \o <<"[">> \o NumToStr(index) \o <<"]">>

KeySeg(key) == [type |-> "key", key |-> key, index |-> 0]
IndexSeg(n) == [type |-> "index", key |-> <<>>, index |-> n]
ParseFail == [ok |-> FALSE, segs |-> <<>>]

\* value[i] of the code is At(value, i + 1); past the end it is undefined
At(value, p) == IF p >= 1 /\ p <= Len(value) THEN value[p] ELSE "undefined"

\* while (index < value.length && /[A-Za-z0-9_$]/.test(value[index])) index += 1
RECURSIVE ScanWhile(_, _, _)
ScanWhile(value, p, class) ==
    IF p <= Len(value) /\ value[p] \in class THEN ScanWhile(value, p + 1, class) ELSE p

\* the loop over a quoted key: stops at the closing quote or at the end
RECURSIVE ScanQuoted(_, _, _)
ScanQuoted(value, p, key) ==
    IF p > Len(value) THEN [ok |-> TRUE, key |-> key, p |-> p]
    ELSE IF value[p] = "\\"
         THEN IF p + 1 > Len(value) THEN [ok |-> FALSE, key |-> key, p |-> p]
              ELSE ScanQuoted(value, p + 2, key \o <<value[p + 1]>>)
    ELSE IF value[p] = "'" THEN [ok |-> TRUE, key |-> key, p |-> p]
    ELSE ScanQuoted(value, p + 1, key \o <<value[p]>>)

RECURSIVE ParseSegments(_, _, _)
ParseSegments(value, p, segments) ==
    IF p > Len(value) THEN [ok |-> TRUE, segs |-> segments]
    ELSE IF value[p] = "."
         THEN LET start == p + 1
                  end == ScanWhile(value, start, IdentPart)
              IN IF start = end THEN ParseFail
                 ELSE ParseSegments(value, end,
                        Append(segments, KeySeg(SubSeq(value, start, end - 1))))
    ELSE IF value[p] = "["
         THEN IF p + 1 > Len(value) THEN ParseFail
              ELSE IF value[p + 1] = "'"
                   THEN LET q == ScanQuoted(value, p + 2, <<>>)
                        IN IF ~q.ok THEN ParseFail
                           ELSE IF At(value, q.p) # "'" THEN ParseFail
                           ELSE IF At(value, q.p + 1) # "]" THEN ParseFail
                           ELSE ParseSegments(value, q.p + 2, Append(segments, KeySeg(q.key)))
              ELSE LET start == p + 1
                       end == ScanWhile(value, start, Digit)
                   IN IF start = end \/ At(value, end) # "]" THEN ParseFail
                      ELSE ParseSegments(value, end + 1,
                             Append(segments, IndexSeg(StrToNum(SubSeq(value, start, end - 1)))))
    ELSE ParseFail

parseJsonPath(path) ==
    LET value == Trim(path)
    IN IF value = <<>> \/ value[1] # "$" THEN ParseFail
       ELSE ParseSegments(value, 2, <<>>)

\* the loop of buildPathInDocument; "parts" is kept in root-to-leaf order
\* (the code pushes leaf-to-root and reverses)
RECURSIVE BuildParts(_, _, _)
BuildParts(nodes, current, parts) ==
    IF current.parentId = NoId THEN <<"$">> \o parts
    ELSE IF current.parentId \notin DOMAIN nodes THEN <<"$">>
    ELSE LET parent == nodes[current.parentId]
         IN IF parent.type = "array"
            THEN LET index == IF parent.hasChildren THEN IndexOf(parent.children, current.id) - 1
                              ELSE -1
                 IN IF index < 0 THEN <<"$">>
                    ELSE BuildParts(nodes, parent, appendIndexSegment(<<>>, index) \o parts)
            ELSE IF parent.type = "object"
            THEN IF ~current.hasKey THEN <<"$">>
                 ELSE BuildParts(nodes, parent, appendKeySegment(<<>>, current.key) \o parts)
            ELSE <<"$">>

buildPathInDocument(doc, nodeId) ==
    IF nodeId \notin DOMAIN doc.nodes THEN <<"$">>
    ELSE BuildParts(doc.nodes, doc.nodes[nodeId], <<>>)

\* a faulty lookup: the first child is taken whatever its key
FindChildIgnoringKey(nodes, children, key) ==
    IF Len(children) > 0 THEN children[1] ELSE NoId

\* current.children.find(childId => nodes[childId]?.key === segment.value)
FindChildByKey(nodes, children, key) ==
    LET hit(i) == /\ children[i] \in DOMAIN nodes
                  /\ nodes[children[i]].hasKey
                  /\ nodes[children[i]].key = key
    IN IF \E i \in 1..Len(children) : hit(i)
       THEN children[CHOOSE i \in 1..Len(children) : hit(i) /\ \A j \in 1..(i - 1) : ~hit(j)]
       ELSE NoId

RECURSIVE ResolveSegments(_, _, _, _)
ResolveSegments(doc, segments, i, currentId) ==
    IF i > Len(segments) THEN currentId
    ELSE IF currentId \notin DOMAIN doc.nodes THEN NoId
    ELSE LET current == doc.nodes[currentId]
             segment == segments[i]
         IN IF segment.type = "key"
            THEN IF current.type # "object" \/ ~current.hasChildren THEN NoId
                 ELSE LET nextId == FindChildByKey(doc.nodes, current.children, segment.key)
                      IN IF nextId = NoId THEN NoId
                         ELSE ResolveSegments(doc, segments, i + 1, nextId)
            ELSE IF current.type # "array" \/ ~current.hasChildren THEN NoId
                 ELSE IF segment.index < 0 \/ segment.index >= Len(current.children) THEN NoId
                 ELSE ResolveSegments(doc, segments, i + 1, current.children[segment.index + 1])

\* null is NoId
resolvePathInDocument(doc, jsonPath) ==
    LET parsed == parseJsonPath(jsonPath)
    IN IF ~parsed.ok THEN NoId
       ELSE ResolveSegments(doc, parsed.segs, 1, doc.rootId)

(***************************************************************************)
(* JSON Pointer to JSONPath (utils/schemaValidation).                      *)
(***************************************************************************)
\* text.replace(/from/g, to) for a literal `from`: every occurrence, left to right
RECURSIVE ReplaceEach(_, _, _)
ReplaceEach(text, from, to) ==
    IF text = <<>> THEN <<>>
    ELSE IF Len(text) >= Len(from) /\ SubSeq(text, 1, Len(from)) = from
         THEN to \o ReplaceEach(SubSeq(text, Len(from) + 1, Len(text)), from, to)
         ELSE <<Head(text)>> \o ReplaceEach(Tail(text), from, to)

decodeJsonPointerToken(token) ==
    ReplaceEach(ReplaceEach(token, <<"~", "1">>, <<"/">>), <<"~", "0">>, <<"~">>)

\* pointer.split('/'): the pieces between the slashes, empty pieces included
RECURSIVE SplitOnSlash(_, _)
SplitOnSlash(text, piece) ==
    IF text = <<>> THEN <<piece>>
    ELSE IF Head(text) = "/" THEN <<piece>> \o SplitOnSlash(Tail(text), <<>>)
    ELSE SplitOnSlash(Tail(text), Append(piece, Head(text)))

\* /^\d+$/.test(value)
AllDigits(value) == value # <<>> /\ \A i \in 1..Len(value) : value[i] \in Digit

\* the reduce over the tokens, from '$'
RECURSIVE PointerTokensToPath(_, _, _)
PointerTokensToPath(tokens, i, path) ==
    IF i > Len(tokens) THEN path
    ELSE LET value == decodeJsonPointerToken(tokens[i])
         IN PointerTokensToPath(tokens, i + 1,
                IF AllDigits(value) THEN path \o <<"[">> \o value \o <<"]">>
                ELSE appendKeySegment(path, value))

jsonPointerToJsonPath(pointer) ==
    IF pointer = <<>> THEN <<"$">>
    ELSE PointerTokensToPath(Tail(SplitOnSlash(pointer, <<>>)), 1, <<"$">>)

(***************************************************************************)
(* Structural diff / patch engine (utils/jsonDiff).                        *)
(***************************************************************************)
JUndefined == [t |-> "undefined", s |-> <<>>, xs |-> <<>>]

isObject(value) == value.t = "object"
isArray(value) == value.t = "array"

\* a faulty comparison: two values of the same type count as equal
isSameType(left, right) == left.t = right.t

\* left === right || JSON.stringify(left) === JSON.stringify(right): the
\* serialisations agree iff the values agree with their keys in the same
\* enumeration order, which is equality of the ordered representation
isEqualValue(left, right) == left = right

\* characters in UTF-16 code unit order (the order of Array.prototype.sort)
CodeOrder == <<"\t", "\n", "\r", " ", "$", "'", "-", ".", "/",
               "0","1","2","3","4","5","6","7","8","9",
               "A","B","C","D","E","F","G","H","I","J","K","L","M",
               "N","O","P","Q","R","S","T","U","V","W","X","Y","Z",
               "[", "\\", "]", "_",
               "a","b","c","d","e","f","g","h","i","j","k","l","m",
               "n","o","p","q","r","s","t","u","v","w","x","y","z", "~">>
CharCode(c) == CHOOSE i \in 1..Len(CodeOrder) : CodeOrder[i] = c

RECURSIVE CodeUnitLess(_, _)
CodeUnitLess(a, b) ==
    IF a = <<>> THEN b # <<>>
    ELSE IF b = <<>> THEN FALSE
    ELSE IF Head(a) = Head(b) THEN CodeUnitLess(Tail(a), Tail(b))
    ELSE CharCode(Head(a)) < CharCode(Head(b))

\* a faulty sort: descending
RECURSIVE SortKeysDescending(_)
SortKeysDescending(keys) ==
    IF keys = {} THEN <<>>
    ELSE LET greatest == CHOOSE k \in keys : \A other \in keys \ {k} : CodeUnitLess(other, k)
         IN <<greatest>> \o SortKeysDescending(keys \ {greatest})

\* Array.from(keys).sort() on distinct keys
RECURSIVE SortKeys(_)
SortKeys(keys) ==
    IF keys = {} THEN <<>>
    ELSE LET least == CHOOSE k \in keys : \A other \in keys \ {k} : CodeUnitLess(k, other)
         IN <<least>> \o SortKeys(keys \ {least})

DiffEntry(path, kind, currentValue, incomingValue) ==
    [path |-> path, kind |-> kind, currentValue |-> currentValue, incomingValue |-> incomingValue]

Max(a, b) == IF a > b THEN a ELSE b

RECURSIVE walkDiff(_, _, _)
RECURSIVE walkArray(_, _, _, _)
RECURSIVE walkKeys(_, _, _, _, _)
walkDiff(path, left, right) ==
    IF isEqualValue(left, right) THEN <<>>
    ELSE IF isArray(left) /\ isArray(right) THEN walkArray(path, left, right, 0)
    ELSE IF isObject(left) /\ isObject(right)
         THEN walkKeys(path, left, right, SortKeys(Range(ObjKeys(left)) \cup Range(ObjKeys(right))), 1)
    ELSE <<DiffEntry(path, "replace", left, right)>>

walkArray(path, left, right, index) ==
    IF index >= Max(Len(left.xs), Len(right.xs)) THEN <<>>
    ELSE (IF index >= Len(left.xs)
          THEN <<DiffEntry(appendIndexSegment(path, index), "add", JUndefined, right.xs[index + 1].v)>>
          ELSE IF index >= Len(right.xs)
          THEN <<DiffEntry(appendIndexSegment(path, index), "remove", left.xs[index + 1].v, JUndefined)>>
          ELSE walkDiff(appendIndexSegment(path, index), left.xs[index + 1].v, right.xs[index + 1].v))
         \o walkArray(path, left, right, index + 1)

walkKeys(path, left, right, keys, i) ==
    IF i > Len(keys) THEN <<>>
    ELSE LET key == keys[i]
         IN (IF ~HasProp(left, key)
             THEN <<DiffEntry(appendKeySegment(path, key), "add", JUndefined, GetProp(right, key))>>
             ELSE IF ~HasProp(right, key)
             THEN <<DiffEntry(appendKeySegment(path, key), "remove", GetProp(left, key), JUndefined)>>
             ELSE walkDiff(appendKeySegment(path, key), GetProp(left, key), GetProp(right, key)))
            \o walkKeys(path, left, right, keys, i + 1)

diffJson(current, incoming) == walkDiff(<<"$">>, current, incoming)

\* JSON.parse(JSON.stringify(value)) of a JSON value: a deep copy, equal to
\* the value with the same key order
cloneValue(value) == value

\* a fresh intermediate container: [] when the next segment is an index
Vivify(nextSegment) == IF nextSegment.type = "index" THEN JArr(<<>>) ELSE JEmptyObj

ArrSet(arr, index, value) == [arr EXCEPT !.xs[index + 1] = [k |-> <<>>, v |-> value]]
ArrPush(arr, value) == [arr EXCEPT !.xs = Append(arr.xs, [k |-> <<>>, v |-> value])]

\* while (cursor.length <= upTo) cursor.push(filler)   (strict: length < upTo)
RECURSIVE ArrPad(_, _, _)
ArrPad(arr, len, filler) == IF Len(arr.xs) >= len THEN arr ELSE ArrPad(ArrPush(arr, filler), len, filler)

\* applySetBySegments from segment i on: the cursor is updated in place, so a
\* mismatch ("return root") keeps what was written above it
RECURSIVE SetAt(_, _, _, _)
SetAt(cursor, segments, i, value) ==
    LET segment == segments[i]
    IN IF i = Len(segments)
       THEN IF segment.type = "key"
            THEN IF ~isObject(cursor) THEN cursor ELSE ObjSet(cursor, segment.key, cloneValue(value))
            ELSE IF isArray(cursor)
                 THEN IF segment.index >= Len(cursor.xs)
                      THEN ArrPush(ArrPad(cursor, segment.index, JNull), cloneValue(value))
                      ELSE ArrSet(cursor, segment.index, cloneValue(value))
                 ELSE cursor
       ELSE LET nextSegment == segments[i + 1]
            IN IF segment.type = "key"
               THEN IF ~isObject(cursor) THEN cursor
                    ELSE LET filled == IF ~HasProp(cursor, segment.key) \/ GetProp(cursor, segment.key).t = "null"
                                       THEN ObjSet(cursor, segment.key, Vivify(nextSegment))
                                       ELSE cursor
                         IN ObjSet(filled, segment.key,
                                   SetAt(GetProp(filled, segment.key), segments, i + 1, value))
               ELSE IF ~isArray(cursor) THEN cursor
                    ELSE LET padded == ArrPad(cursor, segment.index + 1, Vivify(nextSegment))
                             filled == IF padded.xs[segment.index + 1].v.t = "null"
                                       THEN ArrSet(padded, segment.index, Vivify(nextSegment))
                                       ELSE padded
                         IN ArrSet(filled, segment.index,
                                   SetAt(filled.xs[segment.index + 1].v, segments, i + 1, value))

applySetBySegments(target, segments, value) ==
    IF Len(segments) = 0 THEN cloneValue(value)
    ELSE SetAt(cloneValue(target), segments, 1, value)

\* cursor.splice(index, 1)
ArrSplice1(arr, index) ==
    [arr EXCEPT !.xs = SubSeq(arr.xs, 1, index) \o SubSeq(arr.xs, index + 2, Len(arr.xs))]

RECURSIVE DeleteAt(_, _, _)
DeleteAt(cursor, segments, i) ==
    LET segment == segments[i]
    IN IF i = Len(segments)
       THEN IF segment.type = "key"
            THEN IF ~isObject(cursor) THEN cursor ELSE ObjDelete(cursor, segment.key)
            ELSE IF ~isArray(cursor) \/ segment.index < 0 \/ segment.index >= Len(cursor.xs)
                 THEN cursor
                 ELSE ArrSplice1(cursor, segment.index)
       ELSE IF segment.type = "key"
            THEN IF ~isObject(cursor) \/ ~HasProp(cursor, segment.key) THEN cursor
                 ELSE ObjSet(cursor, segment.key, DeleteAt(GetProp(cursor, segment.key), segments, i + 1))
            ELSE IF ~isArray(cursor) \/ segment.index < 0 \/ segment.index >= Len(cursor.xs)
                 THEN cursor
                 ELSE ArrSet(cursor, segment.index,
                             DeleteAt(cursor.xs[segment.index + 1].v, segments, i + 1))

applyDeleteBySegments(target, segments) ==
    IF Len(segments) = 0 THEN JNull
    ELSE DeleteAt(cloneValue(target), segments, 1)

applyDiffEntry(next, entry) ==
    LET parsed == parseJsonPath(entry.path)
    IN IF ~parsed.ok THEN next
       ELSE IF entry.kind = "remove" THEN applyDeleteBySegments(next, parsed.segs)
       ELSE applySetBySegments(next, parsed.segs, entry.incomingValue)

RECURSIVE ApplyEntriesFrom(_, _, _)
ApplyEntriesFrom(next, entries, i) ==
    IF i > Len(entries) THEN next
    ELSE ApplyEntriesFrom(applyDiffEntry(next, entries[i]), entries, i + 1)

applyDiffEntries(current, entries) == ApplyEntriesFrom(cloneValue(current), entries, 1)

(***************************************************************************)
(* The store (store/useJsonStore): helpers.                                *)
(***************************************************************************)
NoDoc == [rootId |-> NoId, nodes |-> EmptyNodes]
HasDoc(s) == s.document.rootId # NoId

Restrict(f, S) == [x \in S \cap DOMAIN f |-> f[x]]
Without(f, S) == Restrict(f, DOMAIN f \ S)

ContainerTypes == {"object", "array"}

DefaultKey == <<"k", "e", "y">>
PastedKey == <<"p", "a", "s", "t", "e", "d">>

\* a faulty move: a target index past the end is not refused (splice clamps it)
moveListItemClamping(list, fromIndex, toIndex) ==
    IF fromIndex < 0 \/ toIndex < 0 \/ fromIndex >= Len(list) \/ fromIndex = toIndex
    THEN list
    ELSE LET moved == list[fromIndex + 1]
             next == SubSeq(list, 1, fromIndex) \o SubSeq(list, fromIndex + 2, Len(list))
             at == IF toIndex > Len(next) THEN Len(next) ELSE toIndex
         IN SubSeq(next, 1, at) \o <<moved>> \o SubSeq(next, at + 1, Len(next))

moveListItem(list, fromIndex, toIndex) ==
    IF fromIndex < 0 \/ toIndex < 0 \/ fromIndex >= Len(list) \/ toIndex >= Len(list)
       \/ fromIndex = toIndex
    THEN list
    ELSE LET moved == list[fromIndex + 1]
             next == SubSeq(list, 1, fromIndex) \o SubSeq(list, fromIndex + 2, Len(list))
         IN SubSeq(next, 1, toIndex) \o <<moved>> \o SubSeq(next, toIndex + 1, Len(next))

\* a faulty collection: the children only, not what is below them
collectChildIds(nodes, rootId) ==
    IF rootId \notin DOMAIN nodes THEN {}
    ELSE IF nodes[rootId].hasChildren THEN Range(nodes[rootId].children) ELSE {}

\* ids of the descendants of rootId (rootId itself excluded)
RECURSIVE collectDescendantIds(_, _)
collectDescendantIds(nodes, rootId) ==
    IF rootId \notin DOMAIN nodes THEN {}
    ELSE LET kids == IF nodes[rootId].hasChildren THEN Range(nodes[rootId].children) ELSE {}
         IN kids \cup UNION {collectDescendantIds(nodes, c) : c \in kids}

\* the default state of a node type
TypeDefaultValue(t) ==
    CASE t = "string" -> [vt |-> "string", s |-> <<>>]
      [] t = "number" -> [vt |-> "number", s |-> <<"0">>]
      [] t = "boolean" -> [vt |-> "boolean", s |-> <<"f","a","l","s","e">>]
      [] OTHER -> VNull

\* a faulty default state: an array or an object without a children list
getDefaultStateWithoutChildren(type) ==
    [value |-> TypeDefaultValue(type), hasChildren |-> FALSE]

getDefaultNodeState(type) ==
    CASE type = "string" -> [value |-> [vt |-> "string", s |-> <<>>], hasChildren |-> FALSE]
      [] type = "number" -> [value |-> [vt |-> "number", s |-> <<"0">>], hasChildren |-> FALSE]
      [] type = "boolean" -> [value |-> [vt |-> "boolean", s |-> <<"f","a","l","s","e">>], hasChildren |-> FALSE]
      [] type = "null" -> [value |-> VNull, hasChildren |-> FALSE]
      [] OTHER -> [value |-> VNull, hasChildren |-> TRUE]

\* desiredKey || 'key'
OrDefaultKey(key) == IF key = <<>> THEN DefaultKey ELSE key

\* a faulty suffix search: the first suffix tried is taken, free or not
FirstSuffixUnchecked(existing, base, suffix) == suffix

\* the smallest suffix >= 1 for which base_suffix is not taken
RECURSIVE FirstFreeSuffix(_, _, _)
FirstFreeSuffix(existing, base, suffix) ==
    IF (base \o <<"_">> \o NumToStr(suffix)) \in existing
    THEN FirstFreeSuffix(existing, base, suffix + 1)
    ELSE suffix

\* a faulty key choice: the trimmed key, taken or not
ensureKeyWithoutSuffix(nodes, parentId, desiredKey, exceptId) ==
    IF parentId \notin DOMAIN nodes \/ nodes[parentId].type # "object"
       \/ ~nodes[parentId].hasChildren
    THEN OrDefaultKey(desiredKey)
    ELSE OrDefaultKey(Trim(OrDefaultKey(desiredKey)))

ensureUniqueObjectKey(nodes, parentId, desiredKey, exceptId) ==
    IF parentId \notin DOMAIN nodes \/ nodes[parentId].type # "object"
       \/ ~nodes[parentId].hasChildren
    THEN OrDefaultKey(desiredKey)
    ELSE LET base == OrDefaultKey(Trim(OrDefaultKey(desiredKey)))
             children == nodes[parentId].children
             existing == {nodes[c].key : c \in {c \in Range(children) :
                              c # exceptId /\ c \in DOMAIN nodes /\ nodes[c].hasKey}}
         IN IF base \notin existing THEN base
            ELSE base \o <<"_">> \o NumToStr(FirstFreeSuffix(existing, base, 1))

\* nodeToJson of the store: a child is omitted only when its key is undefined
RECURSIVE nodeToJson(_, _)
RECURSIVE nodeToJsonObject(_, _, _, _)
nodeToJson(nodes, nodeId) ==
    IF nodeId \notin DOMAIN nodes THEN JNull
    ELSE LET node == nodes[nodeId]
             kids == IF node.hasChildren THEN node.children ELSE <<>>
         IN CASE node.type = "object" -> nodeToJsonObject(nodes, kids, 1, JEmptyObj)
              [] node.type = "array" ->
                    JArr([i \in 1..Len(kids) |-> nodeToJson(nodes, kids[i])])
              [] OTHER -> JsonOfPrim(node.value)

nodeToJsonObject(nodes, kids, i, value) ==
    IF i > Len(kids) THEN value
    ELSE IF kids[i] \in DOMAIN nodes /\ nodes[kids[i]].hasKey
         THEN nodeToJsonObject(nodes, kids, i + 1,
                 ObjSet(value, nodes[kids[i]].key, nodeToJson(nodes, kids[i])))
         ELSE nodeToJsonObject(nodes, kids, i + 1, value)

\* buildSubtreeFromValue.walk: the node gets `id` (the override, or a fresh
\* uuid drawn on entry); `next` is the next uuid for the nodes below it
RECURSIVE walk(_, _, _, _, _, _)
RECURSIVE walkChildren(_, _, _, _, _)
walk(currentValue, currentParent, hasKey, currentKey, id, next) ==
    IF currentValue.t = "null"
    THEN [nodes |-> (id :> MkNode(id, "null", currentParent, hasKey, currentKey, VNull, FALSE, <<>>)),
          next |-> next]
    ELSE IF currentValue.t \in ContainerTypes
    THEN LET sub == walkChildren(currentValue.xs, id, currentValue.t = "object", 1, next)
         IN [nodes |-> (id :> MkNode(id, currentValue.t, currentParent, hasKey, currentKey,
                                     VNull, TRUE, sub.ids)) @@ sub.nodes,
             next |-> sub.next]
    ELSE [nodes |-> (id :> MkNode(id, currentValue.t, currentParent, hasKey, currentKey,
                                  PrimOfJson(currentValue), FALSE, <<>>)),
          next |-> next]

walkChildren(xs, parentId, keyed, i, next) ==
    IF i > Len(xs) THEN [nodes |-> EmptyNodes, ids |-> <<>>, next |-> next]
    ELSE LET one == walk(xs[i].v, parentId, keyed, IF keyed THEN xs[i].k ELSE <<>>, next, next + 1)
             rest == walkChildren(xs, parentId, keyed, i + 1, one.next)
         IN [nodes |-> one.nodes @@ rest.nodes,
             ids |-> <<next>> \o rest.ids,
             next |-> rest.next]

\* rootIdOverride = NoId: no override, the root draws a fresh uuid
buildSubtreeFromValue(value, parentId, hasKey, key, rootIdOverride, next) ==
    LET rootId == IF rootIdOverride # NoId THEN rootIdOverride ELSE next
        built == walk(value, parentId, hasKey, key, rootId,
                      IF rootIdOverride # NoId THEN next ELSE next + 1)
    IN [rootId |-> rootId, nodes |-> built.nodes, next |-> built.next]

\* ancestors of nodeId: while (current && current.parentId) add(current.parentId)
RECURSIVE AncestorIds(_, _)
AncestorIds(nodes, nodeId) ==
    IF nodeId \notin DOMAIN nodes \/ nodes[nodeId].parentId = NoId THEN {}
    ELSE {nodes[nodeId].parentId} \cup AncestorIds(nodes, nodes[nodeId].parentId)

(***************************************************************************)
(* History commands.                                                       *)
(***************************************************************************)
UpdateValueCmd(id, oldValue, newValue) ==
    [type |-> "UPDATE_VALUE", id |-> id, oldValue |-> oldValue, newValue |-> newValue]
RenameKeyCmd(id, hasOldKey, oldKey, newKey) ==
    [type |-> "RENAME_KEY", id |-> id, hasOldKey |-> hasOldKey, oldKey |-> oldKey, newKey |-> newKey]
AddNodeCmd(parentId, node) ==
    [type |-> "ADD_NODE", parentId |-> parentId, node |-> node]
\* a faulty command: the descendants of the deleted node are not kept
DeleteNodeCmdWithoutSubtree(parentId, index, node, subtree) ==
    [type |-> "DELETE_NODE", parentId |-> parentId, index |-> index, node |-> node,
     subtree |-> Restrict(subtree, {})]

DeleteNodeCmd(parentId, index, node, subtree) ==
    [type |-> "DELETE_NODE", parentId |-> parentId, index |-> index, node |-> node, subtree |-> subtree]
MoveArrayItemCmd(parentId, fromIndex, toIndex) ==
    [type |-> "MOVE_ARRAY_ITEM", parentId |-> parentId, fromIndex |-> fromIndex, toIndex |-> toIndex]
ChangeTypeCmd(id, oldNode, newNode, removedSubtree) ==
    [type |-> "CHANGE_TYPE", id |-> id, oldNode |-> oldNode, newNode |-> newNode,
     removedSubtree |-> removedSubtree]
\* a faulty command: the expanded set after the operation is recorded as the
\* one before it
ReplaceDocumentCmdExpandedAfter(before, after, beforeSelectedId, afterSelectedId, beforeExpandedIds, afterExpandedIds) ==
    [type |-> "REPLACE_DOCUMENT", before |-> before, after |-> after,
     beforeSelectedId |-> beforeSelectedId, afterSelectedId |-> afterSelectedId,
     beforeExpandedIds |-> afterExpandedIds, afterExpandedIds |-> afterExpandedIds]

ReplaceDocumentCmd(before, after, beforeSelectedId, afterSelectedId, beforeExpandedIds, afterExpandedIds) ==
    [type |-> "REPLACE_DOCUMENT", before |-> before, after |-> after,
     beforeSelectedId |-> beforeSelectedId, afterSelectedId |-> afterSelectedId,
     beforeExpandedIds |-> beforeExpandedIds, afterExpandedIds |-> afterExpandedIds]

\* a faulty commit: the redo stack is kept
CommitKeepingRedo(s, command) ==
    [s EXCEPT !.isDirty = TRUE, !.undoStack = Append(s.undoStack, command)]

\* a faulty commit: the document is not marked dirty
CommitWithoutDirty(s, command) ==
    [s EXCEPT !.undoStack = Append(s.undoStack, command), !.redoStack = <<>>]

\* what every committing handler returns: isDirty, the pushed command, redoStack: []
Commit(s, command) ==
    [s EXCEPT !.isDirty = TRUE, !.undoStack = Append(s.undoStack, command), !.redoStack = <<>>]

(***************************************************************************)
(* The store: handlers, as functions from the state to the next state.     *)
(* A state is the record of the store's fields; nextId is the state of the *)
(* uuid generator.                                                         *)
(***************************************************************************)
InitialState ==
    [document |-> NoDoc,
     isDirty |-> FALSE,
     selectedId |-> NoId,
     expandedIds |-> {},
     focusRootId |-> NoId,
     multiSelectedIds |-> {},
     searchQuery |-> <<>>,
     searchResults |-> <<>>,
     currentSearchIndex |-> -1,
     replaceTextValue |-> <<>>,
     replacePreview |-> <<>>,
     undoStack |-> <<>>,
     redoStack |-> <<>>,
     nextId |-> 1]

markDirty(s) == [s EXCEPT !.isDirty = TRUE]
markSaved(s) == [s EXCEPT !.isDirty = FALSE]

\* a faulty installation: the history of the previous document is kept
setDocumentKeepingHistory(s, doc, markAsSaved) ==
    [s EXCEPT !.document = doc,
              !.expandedIds = {doc.rootId},
              !.selectedId = NoId,
              !.focusRootId = NoId,
              !.multiSelectedIds = {},
              !.searchResults = <<>>,
              !.searchQuery = <<>>,
              !.currentSearchIndex = -1,
              !.replacePreview = <<>>,
              !.isDirty = ~markAsSaved,
              !.nextId = Cardinality(DOMAIN doc.nodes) + 1]

\* setDocument and setDocumentWithMeta (markAsSaved = TRUE for setDocument).
\* Every field that holds node ids is reset, so the ids of the new document
\* are numbered from 1 again: no older id survives in the state.
setDocumentWithMeta(s, doc, markAsSaved) ==
    [s EXCEPT !.document = doc,
              !.expandedIds = {doc.rootId},
              !.selectedId = NoId,
              !.focusRootId = NoId,
              !.multiSelectedIds = {},
              !.undoStack = <<>>,
              !.redoStack = <<>>,
              !.searchResults = <<>>,
              !.searchQuery = <<>>,
              !.currentSearchIndex = -1,
              !.replacePreview = <<>>,
              !.isDirty = ~markAsSaved,
              !.nextId = Cardinality(DOMAIN doc.nodes) + 1]

setDocument(s, doc) == setDocumentWithMeta(s, doc, TRUE)

\* a faulty update: nothing is pushed when the value is the one the node has
updateNodeValueIfChanged(s, id, value) ==
    IF ~HasDoc(s) THEN s
    ELSE IF id \notin DOMAIN s.document.nodes THEN s
    ELSE IF s.document.nodes[id].value = value THEN s
    ELSE Commit([s EXCEPT !.document.nodes[id].value = value],
                UpdateValueCmd(id, s.document.nodes[id].value, value))

updateNodeValue(s, id, value) ==
    IF ~HasDoc(s) THEN s
    ELSE IF id \notin DOMAIN s.document.nodes THEN s
    ELSE LET node == s.document.nodes[id]
             command == UpdateValueCmd(id, node.value, value)
         IN Commit([s EXCEPT !.document.nodes[id].value = value], command)

\* a faulty type change: the former descendants stay in the node map
changeNodeTypeKeepingSubtree(s, id, nextType) ==
    IF ~HasDoc(s) THEN s
    ELSE IF id \notin DOMAIN s.document.nodes THEN s
    ELSE IF s.document.nodes[id].type = nextType THEN s
    ELSE LET node == s.document.nodes[id]
             defaultState == getDefaultNodeState(nextType)
             newNode == [node EXCEPT !.type = nextType,
                                     !.value = defaultState.value,
                                     !.hasChildren = defaultState.hasChildren,
                                     !.children = <<>>]
             command == ChangeTypeCmd(id, node, newNode, EmptyNodes)
         IN Commit([s EXCEPT !.document.nodes[id] = newNode], command)

changeNodeType(s, id, nextType) ==
    IF ~HasDoc(s) THEN s
    ELSE IF id \notin DOMAIN s.document.nodes THEN s
    ELSE IF s.document.nodes[id].type = nextType THEN s
    ELSE LET nodes == s.document.nodes
             node == nodes[id]
             removedIds == IF node.hasChildren
                           THEN collectDescendantIds(nodes, id) \cap DOMAIN nodes ELSE {}
             removedSubtree == Restrict(nodes, removedIds)
             defaultState == getDefaultNodeState(nextType)
             newNode == [node EXCEPT !.type = nextType,
                                     !.value = defaultState.value,
                                     !.hasChildren = defaultState.hasChildren,
                                     !.children = <<>>]
             newNodes == Without([nodes EXCEPT ![id] = newNode], removedIds)
             command == ChangeTypeCmd(id, node, newNode, removedSubtree)
             newExpandedIds == (s.expandedIds \ removedIds)
                               \cup (IF nextType \in ContainerTypes THEN {id} ELSE {})
         IN Commit([s EXCEPT !.document.nodes = newNodes, !.expandedIds = newExpandedIds], command)

moveArrayItem(s, parentId, fromIndex, toIndex) ==
    IF ~HasDoc(s) THEN s
    ELSE IF parentId \notin DOMAIN s.document.nodes THEN s
    ELSE LET parent == s.document.nodes[parentId]
         IN IF parent.type # "array" \/ ~parent.hasChildren THEN s
            ELSE LET reordered == moveListItem(parent.children, fromIndex, toIndex)
                 IN IF reordered = parent.children THEN s
                    ELSE Commit([s EXCEPT !.document.nodes[parentId].children = reordered],
                                MoveArrayItemCmd(parentId, fromIndex, toIndex))

\* the if-chain of addNode: "" / 0 / false, null for null, object and array
addNodeValue(type) ==
    CASE type = "string" -> [vt |-> "string", s |-> <<>>]
      [] type = "number" -> [vt |-> "number", s |-> <<"0">>]
      [] type = "boolean" -> [vt |-> "boolean", s |-> <<"f","a","l","s","e">>]
      [] OTHER -> VNull

\* key: hasKey = FALSE is the omitted (undefined) key argument
addNode(s, parentId, type, hasKey, key) ==
    IF ~HasDoc(s) THEN s
    ELSE IF parentId \notin DOMAIN s.document.nodes THEN s
    ELSE IF ~s.document.nodes[parentId].hasChildren THEN s
    ELSE LET nodes == s.document.nodes
             parent == nodes[parentId]
             newId == s.nextId
             isObj == parent.type = "object"
             resolvedKey == IF isObj
                            THEN ensureUniqueObjectKey(nodes, parentId,
                                    OrDefaultKey(IF hasKey THEN key ELSE <<>>), NoId)
                            ELSE key
             newNode == MkNode(newId, type, parentId, isObj \/ hasKey,
                               IF isObj \/ hasKey THEN resolvedKey ELSE <<>>,
                               addNodeValue(type), type \in ContainerTypes, <<>>)
             newNodes == (newId :> newNode)
                         @@ [nodes EXCEPT ![parentId].children = Append(parent.children, newId)]
         IN Commit([s EXCEPT !.document.nodes = newNodes,
                             !.expandedIds = s.expandedIds \cup {parentId},
                             !.nextId = s.nextId + 1],
                   AddNodeCmd(parentId, newNode))

deleteNode(s, id) ==
    IF ~HasDoc(s) THEN s
    ELSE IF id \notin DOMAIN s.document.nodes THEN s
    ELSE IF s.document.nodes[id].parentId = NoId THEN s
    ELSE IF s.document.nodes[id].parentId \notin DOMAIN s.document.nodes THEN s
    ELSE IF ~s.document.nodes[s.document.nodes[id].parentId].hasChildren THEN s
    ELSE LET nodes == s.document.nodes
             node == nodes[id]
             parent == nodes[node.parentId]
             index == IndexOf(parent.children, id) - 1
         IN IF index = -1 THEN s
            ELSE LET below == IF node.hasChildren THEN collectDescendantIds(nodes, id) \ {id} ELSE {}
                     subtree == Restrict(nodes, below)
                     command == DeleteNodeCmd(node.parentId, index, node, subtree)
                     newChildren == FilterOut(parent.children, id)
                     newNodes == Without(nodes, {id} \cup collectDescendantIds(nodes, id))
                     withParent == (parent.id :> [parent EXCEPT !.children = newChildren]) @@ newNodes
                 IN Commit([s EXCEPT !.document.nodes = withParent,
                                     !.selectedId = IF s.selectedId = id THEN NoId ELSE s.selectedId],
                           command)

\* a faulty rename: the node's own key counts as taken
renameNodeKeyAmongAll(s, id, newKey) ==
    IF ~HasDoc(s) THEN s
    ELSE IF id \notin DOMAIN s.document.nodes THEN s
    ELSE IF s.document.nodes[id].parentId = NoId THEN s
    ELSE LET node == s.document.nodes[id]
             uniqueKey == ensureUniqueObjectKey(s.document.nodes, node.parentId, newKey, NoId)
             command == RenameKeyCmd(id, node.hasKey, node.key, uniqueKey)
         IN Commit([s EXCEPT !.document.nodes[id].hasKey = TRUE,
                             !.document.nodes[id].key = uniqueKey],
                   command)

renameNodeKey(s, id, newKey) ==
    IF ~HasDoc(s) THEN s
    ELSE IF id \notin DOMAIN s.document.nodes THEN s
    ELSE IF s.document.nodes[id].parentId = NoId THEN s
    ELSE LET node == s.document.nodes[id]
             uniqueKey == ensureUniqueObjectKey(s.document.nodes, node.parentId, newKey, id)
             command == RenameKeyCmd(id, node.hasKey, node.key, uniqueKey)
         IN Commit([s EXCEPT !.document.nodes[id].hasKey = TRUE,
                             !.document.nodes[id].key = uniqueKey],
                   command)

(***************************************************************************)
(* undo / redo.                                                            *)
(***************************************************************************)
\* a faulty reinsertion: always at the end
SpliceAtEnd(list, index, id) == Append(list, id)

\* newChildren.splice(index, 0, id): an index past the end appends
SpliceIn(list, index, id) ==
    LET at == IF index > Len(list) THEN Len(list) ELSE index
    IN SubSeq(list, 1, at) \o <<id>> \o SubSeq(list, at + 1, Len(list))

\* the effect of undoing one fine-grained command on the node map
undoNodes(nodes, command) ==
    CASE command.type = "UPDATE_VALUE" ->
            IF command.id \in DOMAIN nodes
            THEN [nodes EXCEPT ![command.id].value = command.oldValue] ELSE nodes
      [] command.type = "RENAME_KEY" ->
            IF command.id \in DOMAIN nodes
            THEN [nodes EXCEPT ![command.id].hasKey = command.hasOldKey,
                               ![command.id].key = command.oldKey]
            ELSE nodes
      [] command.type = "ADD_NODE" ->
            IF command.parentId \in DOMAIN nodes /\ nodes[command.parentId].hasChildren
            THEN Without([nodes EXCEPT ![command.parentId].children =
                              FilterOut(nodes[command.parentId].children, command.node.id)],
                         {command.node.id})
            ELSE nodes
      [] command.type = "DELETE_NODE" ->
            IF command.parentId \in DOMAIN nodes /\ nodes[command.parentId].hasChildren
            THEN (command.node.id :> command.node)
                 @@ command.subtree
                 @@ [nodes EXCEPT ![command.parentId].children =
                        SpliceIn(nodes[command.parentId].children, command.index, command.node.id)]
            ELSE nodes
      [] command.type = "MOVE_ARRAY_ITEM" ->
            IF /\ command.parentId \in DOMAIN nodes
               /\ nodes[command.parentId].type = "array"
               /\ nodes[command.parentId].hasChildren
            THEN [nodes EXCEPT ![command.parentId].children =
                     moveListItem(nodes[command.parentId].children, command.toIndex, command.fromIndex)]
            ELSE nodes
      [] command.type = "CHANGE_TYPE" ->
            command.removedSubtree @@ (command.id :> command.oldNode) @@ nodes

undo(s) ==
    IF Len(s.undoStack) = 0 \/ ~HasDoc(s) THEN s
    ELSE LET command == s.undoStack[Len(s.undoStack)]
             newUndoStack == SubSeq(s.undoStack, 1, Len(s.undoStack) - 1)
             newRedoStack == Append(s.redoStack, command)
         IN IF command.type = "REPLACE_DOCUMENT"
            THEN [s EXCEPT !.document = command.before,
                           !.selectedId = command.beforeSelectedId,
                           !.expandedIds = command.beforeExpandedIds,
                           !.focusRootId = NoId,
                           !.multiSelectedIds = {},
                           !.isDirty = TRUE,
                           !.undoStack = newUndoStack,
                           !.redoStack = newRedoStack]
            ELSE [s EXCEPT !.document.nodes = undoNodes(s.document.nodes, command),
                           !.isDirty = TRUE,
                           !.undoStack = newUndoStack,
                           !.redoStack = newRedoStack]

\* the effect of redoing one fine-grained command on the node map
redoNodes(nodes, command) ==
    CASE command.type = "UPDATE_VALUE" ->
            IF command.id \in DOMAIN nodes
            THEN [nodes EXCEPT ![command.id].value = command.newValue] ELSE nodes
      [] command.type = "RENAME_KEY" ->
            IF command.id \in DOMAIN nodes
            THEN [nodes EXCEPT ![command.id].hasKey = TRUE, ![command.id].key = command.newKey]
            ELSE nodes
      [] command.type = "ADD_NODE" ->
            IF command.parentId \in DOMAIN nodes /\ nodes[command.parentId].hasChildren
            THEN (command.node.id :> command.node)
                 @@ [nodes EXCEPT ![command.parentId].children =
                        Append(nodes[command.parentId].children, command.node.id)]
            ELSE nodes
      [] command.type = "DELETE_NODE" ->
            IF command.parentId \in DOMAIN nodes /\ nodes[command.parentId].hasChildren
            THEN Without([nodes EXCEPT ![command.parentId].children =
                              FilterOut(nodes[command.parentId].children, command.node.id)],
                         {command.node.id} \cup DOMAIN command.subtree)
            ELSE nodes
      [] command.type = "MOVE_ARRAY_ITEM" ->
            IF /\ command.parentId \in DOMAIN nodes
               /\ nodes[command.parentId].type = "array"
               /\ nodes[command.parentId].hasChildren
            THEN [nodes EXCEPT ![command.parentId].children =
                     moveListItem(nodes[command.parentId].children, command.fromIndex, command.toIndex)]
            ELSE nodes
      [] command.type = "CHANGE_TYPE" ->
            Without((command.id :> command.newNode) @@ nodes, DOMAIN command.removedSubtree)

redo(s) ==
    IF Len(s.redoStack) = 0 \/ ~HasDoc(s) THEN s
    ELSE LET command == s.redoStack[Len(s.redoStack)]
             newRedoStack == SubSeq(s.redoStack, 1, Len(s.redoStack) - 1)
             newUndoStack == Append(s.undoStack, command)
         IN IF command.type = "REPLACE_DOCUMENT"
            THEN [s EXCEPT !.document = command.after,
                           !.selectedId = command.afterSelectedId,
                           !.expandedIds = command.afterExpandedIds,
                           !.focusRootId = NoId,
                           !.multiSelectedIds = {},
                           !.isDirty = TRUE,
                           !.undoStack = newUndoStack,
                           !.redoStack = newRedoStack]
            ELSE [s EXCEPT !.document.nodes = redoNodes(s.document.nodes, command),
                           !.isDirty = TRUE,
                           !.undoStack = newUndoStack,
                           !.redoStack = newRedoStack]

(***************************************************************************)
(* Bulk operations: one REPLACE_DOCUMENT command each.                     *)
(***************************************************************************)
replaceDocumentFromJson(s, jsonValue) ==
    IF ~HasDoc(s) THEN s
    ELSE LET beforeDoc == s.document
             selectedPath == IF s.selectedId # NoId
                             THEN buildPathInDocument(s.document, s.selectedId) ELSE <<>>
             built == jsonToAstFrom(jsonValue, s.nextId)
             nextDoc == built.doc
             nextSelectedId == IF s.selectedId # NoId
                               THEN resolvePathInDocument(nextDoc, selectedPath) ELSE NoId
             nextExpandedIds == {nextDoc.rootId}
                                \cup (IF nextSelectedId # NoId
                                      THEN AncestorIds(nextDoc.nodes, nextSelectedId) ELSE {})
             command == ReplaceDocumentCmd(beforeDoc, nextDoc, s.selectedId, nextSelectedId,
                                           s.expandedIds, nextExpandedIds)
         IN Commit([s EXCEPT !.document = nextDoc,
                             !.selectedId = nextSelectedId,
                             !.expandedIds = nextExpandedIds,
                             !.focusRootId = NoId,
                             !.multiSelectedIds = {},
                             !.nextId = built.next],
                   command)

\* a faulty filter that looks down instead of up: a selected node counts as
\* top-level when no selected node lies below it
TopLevelLookingDown(nodes, selectedSet) ==
    {id \in selectedSet :
        \A other \in selectedSet \ {id} :
            other \in DOMAIN nodes => id \notin AncestorIds(nodes, other)}

\* batchDeleteSelected: the selected nodes with no selected ancestor
TopLevelSelected(nodes, selectedSet) ==
    {id \in selectedSet : AncestorIds(nodes, id) \cap selectedSet = {}}

\* children.filter(childId => childId !== nodeId) for every deleted top-level node
RECURSIVE FilterOutAll(_, _)
FilterOutAll(list, S) ==
    IF list = <<>> THEN <<>>
    ELSE IF Head(list) \in S THEN FilterOutAll(Tail(list), S)
    ELSE <<Head(list)>> \o FilterOutAll(Tail(list), S)

batchDeleteSelected(s) ==
    IF ~HasDoc(s) \/ s.multiSelectedIds = {} THEN s
    ELSE LET nodes == s.document.nodes
             selected == {id \in s.multiSelectedIds :
                             id \in DOMAIN nodes /\ nodes[id].parentId # NoId}
             topLevel == TopLevelSelected(nodes, selected)
         IN IF topLevel = {} THEN [s EXCEPT !.multiSelectedIds = {}]
            ELSE LET \* a top-level node is skipped when its parent is gone or has no children
                     acted == {id \in topLevel : /\ nodes[id].parentId \in DOMAIN nodes
                                                 /\ nodes[nodes[id].parentId].hasChildren}
                     deletedIds == (acted \cup UNION {collectDescendantIds(nodes, id) : id \in acted})
                                   \cap DOMAIN nodes
                     kept == Without(nodes, deletedIds)
                     newNodes == [id \in DOMAIN kept |->
                                    IF kept[id].hasChildren
                                    THEN [kept[id] EXCEPT !.children = FilterOutAll(kept[id].children, acted)]
                                    ELSE kept[id]]
                     nextDoc == [rootId |-> s.document.rootId, nodes |-> newNodes]
                     nextSelectedId == IF s.selectedId # NoId /\ s.selectedId \notin deletedIds
                                       THEN s.selectedId ELSE NoId
                     nextExpandedIds == {s.document.rootId}
                                        \cup {id \in s.expandedIds :
                                                id \notin deletedIds /\ id \in DOMAIN newNodes}
                     command == ReplaceDocumentCmd(s.document, nextDoc, s.selectedId, nextSelectedId,
                                                   s.expandedIds, nextExpandedIds)
                 IN Commit([s EXCEPT !.document = nextDoc,
                                     !.selectedId = nextSelectedId,
                                     !.expandedIds = nextExpandedIds,
                                     !.multiSelectedIds = {},
                                     !.focusRootId = NoId],
                           command)

\* a faulty graft: the new child is put in front of the existing children
appendToParentInFront(work, parentId, value, hasKey, key) ==
    IF parentId \notin DOMAIN work.nodes \/ ~work.nodes[parentId].hasChildren THEN work
    ELSE LET parent == work.nodes[parentId]
             subtree == buildSubtreeFromValue(value, parentId, hasKey, key, NoId, work.next)
             root == subtree.nodes[subtree.rootId]
             keyedRoot == IF parent.type = "object"
                          THEN [root EXCEPT !.hasKey = TRUE,
                                            !.key = ensureUniqueObjectKey(work.nodes, parentId,
                                                       OrDefaultKey(IF hasKey THEN key ELSE <<>>), NoId)]
                          ELSE root
             added == (subtree.rootId :> keyedRoot) @@ subtree.nodes @@ work.nodes
         IN [nodes |-> [added EXCEPT ![parentId].children = <<subtree.rootId>> \o parent.children],
             next |-> subtree.next]

\* pasteNodeJson.appendToParent on the working copy [nodes, next]
appendToParent(work, parentId, value, hasKey, key) ==
    IF parentId \notin DOMAIN work.nodes \/ ~work.nodes[parentId].hasChildren THEN work
    ELSE LET parent == work.nodes[parentId]
             subtree == buildSubtreeFromValue(value, parentId, hasKey, key, NoId, work.next)
             root == subtree.nodes[subtree.rootId]
             keyedRoot == IF parent.type = "object"
                          THEN [root EXCEPT !.hasKey = TRUE,
                                            !.key = ensureUniqueObjectKey(work.nodes, parentId,
                                                       OrDefaultKey(IF hasKey THEN key ELSE <<>>), NoId)]
                          ELSE root
             added == (subtree.rootId :> keyedRoot) @@ subtree.nodes @@ work.nodes
         IN [nodes |-> [added EXCEPT ![parentId].children = Append(parent.children, subtree.rootId)],
             next |-> subtree.next]

RECURSIVE AppendItems(_, _, _, _)
AppendItems(work, parentId, xs, i) ==
    IF i > Len(xs) THEN work
    ELSE AppendItems(appendToParent(work, parentId, xs[i].v, FALSE, <<>>), parentId, xs, i + 1)

RECURSIVE AppendEntries(_, _, _, _)
AppendEntries(work, parentId, xs, i) ==
    IF i > Len(xs) THEN work
    ELSE AppendEntries(appendToParent(work, parentId, xs[i].v, TRUE, xs[i].k), parentId, xs, i + 1)

\* a faulty paste: a command is pushed whatever the text holds
pasteNodeJsonUnparsed(s, targetId, rawJson, mode) ==
    IF ~HasDoc(s) \/ targetId \notin DOMAIN s.document.nodes THEN s
    ELSE Commit([s EXCEPT !.expandedIds = s.expandedIds \cup {targetId}],
                ReplaceDocumentCmd(s.document, s.document, s.selectedId, s.selectedId,
                                   s.expandedIds, s.expandedIds \cup {targetId}))

\* rawJson: [valid |-> whether JSON.parse succeeds, value |-> what it returns]
pasteNodeJson(s, targetId, rawJson, mode) ==
    IF ~HasDoc(s) \/ targetId \notin DOMAIN s.document.nodes THEN s
    ELSE IF ~rawJson.valid THEN s
    ELSE LET nodes == s.document.nodes
             target == nodes[targetId]
             parsed == rawJson.value
             start == [nodes |-> nodes, next |-> s.nextId]
             work ==
                IF mode = "replace" \/ target.type \notin ContainerTypes
                THEN LET kept == Without(nodes, collectDescendantIds(nodes, targetId))
                         subtree == buildSubtreeFromValue(parsed, target.parentId, target.hasKey,
                                                          target.key, targetId, s.nextId)
                     IN [nodes |-> subtree.nodes @@ kept, next |-> subtree.next]
                ELSE IF target.type = "array"
                THEN IF mode = "append" /\ isArray(parsed)
                     THEN AppendItems(start, targetId, parsed.xs, 1)
                     ELSE appendToParent(start, targetId, parsed, FALSE, <<>>)
                ELSE IF mode = "append" /\ isObject(parsed)
                     THEN AppendEntries(start, targetId, parsed.xs, 1)
                     ELSE appendToParent(start, targetId, parsed, TRUE, PastedKey)
             nextDoc == [rootId |-> s.document.rootId, nodes |-> work.nodes]
             nextExpandedIds == s.expandedIds \cup {targetId}
             command == ReplaceDocumentCmd(s.document, nextDoc, s.selectedId, s.selectedId,
                                           s.expandedIds, nextExpandedIds)
         IN Commit([s EXCEPT !.document = nextDoc,
                             !.expandedIds = nextExpandedIds,
                             !.nextId = work.next],
                   command)

\* what copyNodeJson hands to JSON.stringify; copied = FALSE is the null result
copyNodeJson(s, nodeId) ==
    IF ~HasDoc(s) \/ nodeId \notin DOMAIN s.document.nodes
    THEN [copied |-> FALSE, value |-> JNull]
    ELSE [copied |-> TRUE, value |-> nodeToJson(s.document.nodes, nodeId)]

\* what pasteNodeJson returns to its caller
pasteNodeJsonResult(s, targetId, rawJson) ==
    IF ~HasDoc(s) \/ targetId \notin DOMAIN s.document.nodes
    THEN [ok |-> FALSE, reason |-> "Target node not found"]
    ELSE IF ~rawJson.valid THEN [ok |-> FALSE, reason |-> "Invalid JSON"]
    ELSE [ok |-> TRUE, reason |-> ""]

(***************************************************************************)
(* String.prototype.localeCompare in the default locale, for the characters *)
(* of CodeOrder: strings compare first by their letters and digits          *)
(* whatever the case (punctuation before digits before letters), and only   *)
(* when those agree by case, lower case first.                              *)
(***************************************************************************)
CollationOrder == <<"\t", "\n", "\r", " ", "_", "-", ".", "'", "[", "]", "/", "\\", "~", "$",
                    "0","1","2","3","4","5","6","7","8","9",
                    "a","b","c","d","e","f","g","h","i","j","k","l","m",
                    "n","o","p","q","r","s","t","u","v","w","x","y","z">>
LowerSeq == <<"a","b","c","d","e","f","g","h","i","j","k","l","m",
              "n","o","p","q","r","s","t","u","v","w","x","y","z">>
UpperSeq == <<"A","B","C","D","E","F","G","H","I","J","K","L","M",
              "N","O","P","Q","R","S","T","U","V","W","X","Y","Z">>

ToLowerChar(c) == IF c \in Upper THEN LowerSeq[CHOOSE i \in 1..Len(UpperSeq) : UpperSeq[i] = c] ELSE c
toLowerCase(text) == [i \in 1..Len(text) |-> ToLowerChar(text[i])]
PrimaryRank(c) == CHOOSE i \in 1..Len(CollationOrder) : CollationOrder[i] = ToLowerChar(c)

\* -1, 0 or 1 at the primary level
RECURSIVE PrimaryCompare(_, _)
PrimaryCompare(a, b) ==
    IF a = <<>> THEN (IF b = <<>> THEN 0 ELSE -1)
    ELSE IF b = <<>> THEN 1
    ELSE IF PrimaryRank(Head(a)) < PrimaryRank(Head(b)) THEN -1
    ELSE IF PrimaryRank(Head(a)) > PrimaryRank(Head(b)) THEN 1
    ELSE PrimaryCompare(Tail(a), Tail(b))

\* same letters: the first difference of case decides, lower case first
RECURSIVE CaseCompare(_, _)
CaseCompare(a, b) ==
    IF a = <<>> THEN 0
    ELSE IF Head(a) = Head(b) THEN CaseCompare(Tail(a), Tail(b))
    ELSE IF Head(a) \in Upper THEN 1 ELSE -1

localeCompare(a, b) ==
    LET primary == PrimaryCompare(a, b)
    IN IF primary # 0 THEN primary ELSE CaseCompare(a, b)

\* Array.prototype.sort with (l, r) => l.k.localeCompare(r.k): a stable sort
\* of records by their field k
RECURSIVE InsertSorted(_, _)
InsertSorted(sorted, x) ==
    IF sorted = <<>> THEN <<x>>
    ELSE IF localeCompare(x.k, sorted[Len(sorted)].k) >= 0 THEN Append(sorted, x)
    ELSE Append(InsertSorted(SubSeq(sorted, 1, Len(sorted) - 1), x), sorted[Len(sorted)])

RECURSIVE SortByLocale(_, _, _)
SortByLocale(list, i, sorted) ==
    IF i > Len(list) THEN sorted
    ELSE SortByLocale(list, i + 1, InsertSorted(sorted, list[i]))

\* a faulty reversal: the list is left in ascending order
ReverseNothing(list) == list

Reverse(list) == [i \in 1..Len(list) |-> list[Len(list) + 1 - i]]

sortObjectKeys(s, nodeId, direction) ==
    IF ~HasDoc(s) THEN s
    ELSE IF nodeId \notin DOMAIN s.document.nodes THEN s
    ELSE IF s.document.nodes[nodeId].type # "object" \/ ~s.document.nodes[nodeId].hasChildren THEN s
    ELSE LET nodes == s.document.nodes
             node == nodes[nodeId]
             keyOf(id) == IF id \in DOMAIN nodes /\ nodes[id].hasKey THEN nodes[id].key ELSE <<>>
             tagged == [i \in 1..Len(node.children) |-> [k |-> keyOf(node.children[i]), v |-> node.children[i]]]
             asc == SortByLocale(tagged, 1, <<>>)
             ordered == IF direction = "desc" THEN Reverse(asc) ELSE asc
             sorted == [i \in 1..Len(ordered) |-> ordered[i].v]
         IN IF sorted = node.children THEN s
            ELSE LET nextDoc == [s.document EXCEPT !.nodes[nodeId].children = sorted]
                     command == ReplaceDocumentCmd(s.document, nextDoc, s.selectedId, s.selectedId,
                                                   s.expandedIds, s.expandedIds)
                 IN Commit([s EXCEPT !.document = nextDoc], command)

RECURSIVE sortJsonKeysDeep(_)
RECURSIVE RebuildSorted(_, _, _)
sortJsonKeysDeep(value) ==
    IF isArray(value) THEN JArr([i \in 1..Len(value.xs) |-> sortJsonKeysDeep(value.xs[i].v)])
    ELSE IF ~isObject(value) THEN value
    ELSE RebuildSorted(SortByLocale(value.xs, 1, <<>>), 1, JEmptyObj)

RebuildSorted(entries, i, acc) ==
    IF i > Len(entries) THEN acc
    ELSE RebuildSorted(entries, i + 1, ObjSet(acc, entries[i].k, sortJsonKeysDeep(entries[i].v)))

formatDocument(s, mode) ==
    IF ~HasDoc(s) THEN s
    ELSE LET json == astToJson(s.document)
         IN IF mode = "sort" THEN replaceDocumentFromJson(s, sortJsonKeysDeep(json))
            ELSE replaceDocumentFromJson(s, json)

applyDiffSelection(s, entries) ==
    IF ~HasDoc(s) \/ Len(entries) = 0 THEN s
    ELSE replaceDocumentFromJson(s, applyDiffEntries(astToJson(s.document), entries))

(***************************************************************************)
(* Selection, expansion, multi-selection.                                  *)
(***************************************************************************)
selectNode(s, id) == [s EXCEPT !.selectedId = id]

\* toggleExpand(id) with `expanded` omitted
toggleExpand(s, id) ==
    [s EXCEPT !.expandedIds = IF id \in s.expandedIds THEN s.expandedIds \ {id}
                              ELSE s.expandedIds \cup {id}]

\* nodeId = NoId is the omitted argument: the selected node is the target
toggleFocusMode(s, nodeId) ==
    LET targetId == IF nodeId # NoId THEN nodeId ELSE s.selectedId
    IN IF targetId = NoId \/ ~HasDoc(s) \/ targetId \notin DOMAIN s.document.nodes THEN s
       ELSE IF s.focusRootId = targetId THEN [s EXCEPT !.focusRootId = NoId]
       ELSE [s EXCEPT !.focusRootId = targetId, !.expandedIds = {targetId}]

toggleMultiSelect(s, nodeId) ==
    IF ~HasDoc(s) \/ nodeId \notin DOMAIN s.document.nodes THEN s
    ELSE [s EXCEPT !.multiSelectedIds = IF nodeId \in s.multiSelectedIds
                                        THEN s.multiSelectedIds \ {nodeId}
                                        ELSE s.multiSelectedIds \cup {nodeId},
                   !.selectedId = nodeId]

(***************************************************************************)
(* Search and replace, with the default filters (keys and values, not case *)
(* sensitive, no regular expression).                                      *)
(***************************************************************************)
\* String.prototype.includes
Includes(text, part) ==
    \E p \in 1..(Len(text) - Len(part) + 1) : SubSeq(text, p, p + Len(part) - 1) = part

matches(text, query) == Includes(toLowerCase(text), toLowerCase(query))

\* setSearchQuery.traverse: the matching ids in pre-order
RECURSIVE traverse(_, _, _)
RECURSIVE traverseAll(_, _, _, _)
traverse(nodes, id, query) ==
    IF id \notin DOMAIN nodes THEN <<>>
    ELSE LET node == nodes[id]
             keyMatch == node.hasKey /\ node.key # <<>> /\ matches(node.key, query)
             valueMatch == node.value.vt # "null" /\ matches(node.value.s, query)
         IN (IF keyMatch \/ valueMatch THEN <<id>> ELSE <<>>)
            \o (IF node.hasChildren THEN traverseAll(nodes, node.children, 1, query) ELSE <<>>)

traverseAll(nodes, children, i, query) ==
    IF i > Len(children) THEN <<>>
    ELSE traverse(nodes, children[i], query) \o traverseAll(nodes, children, i + 1, query)

setSearchQuery(s, query) ==
    IF ~HasDoc(s) \/ Trim(query) = <<>>
    THEN [s EXCEPT !.searchQuery = query, !.searchResults = <<>>,
                   !.currentSearchIndex = -1, !.replacePreview = <<>>]
    ELSE LET results == traverse(s.document.nodes, s.document.rootId, query)
             toExpand == s.expandedIds
                         \cup (IF Len(results) > 0 THEN AncestorIds(s.document.nodes, results[1]) ELSE {})
         IN [s EXCEPT !.searchQuery = query,
                      !.searchResults = results,
                      !.currentSearchIndex = IF Len(results) > 0 THEN 0 ELSE -1,
                      !.selectedId = IF Len(results) > 0 THEN results[1] ELSE s.selectedId,
                      !.expandedIds = toExpand,
                      !.replacePreview = <<>>]

nextSearchResult(s) ==
    IF Len(s.searchResults) = 0 THEN s
    ELSE LET nextIndex == (s.currentSearchIndex + 1) % Len(s.searchResults)
             nextId == s.searchResults[nextIndex + 1]
         IN [s EXCEPT !.currentSearchIndex = nextIndex,
                      !.selectedId = nextId,
                      !.expandedIds = s.expandedIds \cup AncestorIds(s.document.nodes, nextId)]

prevSearchResult(s) ==
    IF Len(s.searchResults) = 0 THEN s
    ELSE LET prevIndex == (s.currentSearchIndex - 1 + Len(s.searchResults)) % Len(s.searchResults)
             prevId == s.searchResults[prevIndex + 1]
         IN [s EXCEPT !.currentSearchIndex = prevIndex,
                      !.selectedId = prevId,
                      !.expandedIds = s.expandedIds \cup AncestorIds(s.document.nodes, prevId)]

setReplaceTextValue(s, value) == [s EXCEPT !.replaceTextValue = value]

\* text.replace(regex, replacement) for the escaped query with flags 'gi': every
\* occurrence, left to right, whatever the case (replacement without '$')
RECURSIVE ReplaceAll(_, _, _)
ReplaceAll(text, query, replacement) ==
    IF text = <<>> THEN <<>>
    ELSE IF /\ Len(text) >= Len(query)
            /\ toLowerCase(SubSeq(text, 1, Len(query))) = toLowerCase(query)
         THEN replacement \o ReplaceAll(SubSeq(text, Len(query) + 1, Len(text)), query, replacement)
         ELSE <<Head(text)>> \o ReplaceAll(Tail(text), query, replacement)

PreviewEntry(id, field, before, after) ==
    [id |-> id, field |-> field, before |-> before, after |-> after]

RECURSIVE PreviewOf(_, _, _)
PreviewOf(s, results, i) ==
    IF i > Len(results) THEN <<>>
    ELSE LET id == results[i]
             nodes == s.document.nodes
         IN (IF id \notin DOMAIN nodes THEN <<>>
             ELSE LET node == nodes[id]
                      nextKey == ReplaceAll(node.key, s.searchQuery, s.replaceTextValue)
                      nextValue == ReplaceAll(node.value.s, s.searchQuery, s.replaceTextValue)
                  IN (IF node.hasKey /\ nextKey # node.key
                      THEN <<PreviewEntry(id, "key", node.key, nextKey)>> ELSE <<>>)
                     \o (IF node.type = "string" /\ node.value.vt = "string" /\ nextValue # node.value.s
                         THEN <<PreviewEntry(id, "value", node.value.s, nextValue)>> ELSE <<>>))
            \o PreviewOf(s, results, i + 1)

buildReplacePreview(s) ==
    IF ~HasDoc(s) \/ Trim(s.searchQuery) = <<>> THEN [s EXCEPT !.replacePreview = <<>>]
    ELSE [s EXCEPT !.replacePreview = PreviewOf(s, s.searchResults, 1)]

RECURSIVE ApplyPreview(_, _, _)
ApplyPreview(newNodes, preview, i) ==
    IF i > Len(preview) THEN newNodes
    ELSE LET entry == preview[i]
         IN IF entry.id \notin DOMAIN newNodes THEN ApplyPreview(newNodes, preview, i + 1)
            ELSE LET node == newNodes[entry.id]
                 IN IF entry.field = "key" /\ node.parentId # NoId
                    THEN ApplyPreview(
                            [newNodes EXCEPT ![entry.id].hasKey = TRUE,
                                             ![entry.id].key = ensureUniqueObjectKey(newNodes,
                                                  node.parentId, entry.after, node.id)],
                            preview, i + 1)
                    ELSE IF entry.field = "value" /\ node.type = "string"
                    THEN ApplyPreview(
                            [newNodes EXCEPT ![entry.id].value = [vt |-> "string", s |-> entry.after]],
                            preview, i + 1)
                    ELSE ApplyPreview(newNodes, preview, i + 1)

applyReplacePreview(s) ==
    IF ~HasDoc(s) \/ Len(s.replacePreview) = 0 THEN s
    ELSE LET afterDoc == [rootId |-> s.document.rootId,
                          nodes |-> ApplyPreview(s.document.nodes, s.replacePreview, 1)]
             command == ReplaceDocumentCmd(s.document, afterDoc, s.selectedId, s.selectedId,
                                           s.expandedIds, s.expandedIds)
         IN Commit([s EXCEPT !.document = afterDoc, !.replacePreview = <<>>], command)

(***************************************************************************)
(* Paths of the loaded document.                                           *)
(***************************************************************************)
RootPath == <<"$">>

buildJsonPath(s, nodeId) ==
    IF ~HasDoc(s) THEN RootPath ELSE buildPathInDocument(s.document, nodeId)

\* NoId stands for null
resolvePathToNodeId(s, jsonPath) ==
    IF ~HasDoc(s) THEN NoId ELSE resolvePathInDocument(s.document, jsonPath)

focusNodeWithAncestors(s, nodeId) ==
    IF ~HasDoc(s) \/ nodeId \notin DOMAIN s.document.nodes THEN s
    ELSE [s EXCEPT !.selectedId = nodeId,
                   !.expandedIds = s.expandedIds \cup AncestorIds(s.document.nodes, nodeId)]

goToJsonPath(s, jsonPath) ==
    LET nodeId == resolvePathToNodeId(s, jsonPath)
    IN IF nodeId = NoId THEN s ELSE focusNodeWithAncestors(s, nodeId)

\* what goToJsonPath returns to its caller
goToJsonPathResult(s, jsonPath) ==
    IF resolvePathToNodeId(s, jsonPath) = NoId
    THEN [ok |-> FALSE, reason |-> "Invalid or unresolved JSONPath"]
    ELSE [ok |-> TRUE, reason |-> ""]

jumpBookmark(s, path) == goToJsonPath(s, path)
jumpBookmarkResult(s, path) == goToJsonPathResult(s, path)

(***************************************************************************)
(* The state machine.                                                      *)
(***************************************************************************)
VARIABLES
    document, isDirty, selectedId, expandedIds, focusRootId, multiSelectedIds,
    searchQuery, searchResults, currentSearchIndex, replaceTextValue, replacePreview,
    undoStack, redoStack,
    nextId,                   \* the uuid generator: the next id it hands out
    calcPc, calcIn, calcOut   \* the pure functions' harness: phase, inputs, results

storeVars == <<document, isDirty, selectedId, expandedIds, focusRootId, multiSelectedIds,
               searchQuery, searchResults, currentSearchIndex, replaceTextValue, replacePreview,
               undoStack, redoStack>>
calcVars == <<calcPc, calcIn, calcOut>>
vars == <<storeVars, nextId, calcVars>>

\* the store's state as one record
St ==
    [document |-> document, isDirty |-> isDirty, selectedId |-> selectedId,
     expandedIds |-> expandedIds, focusRootId |-> focusRootId,
     multiSelectedIds |-> multiSelectedIds, searchQuery |-> searchQuery,
     searchResults |-> searchResults, currentSearchIndex |-> currentSearchIndex,
     replaceTextValue |-> replaceTextValue, replacePreview |-> replacePreview,
     undoStack |-> undoStack, redoStack |-> redoStack, nextId |-> nextId]

Install(s) ==
    /\ document' = s.document
    /\ isDirty' = s.isDirty
    /\ selectedId' = s.selectedId
    /\ expandedIds' = s.expandedIds
    /\ focusRootId' = s.focusRootId
    /\ multiSelectedIds' = s.multiSelectedIds
    /\ searchQuery' = s.searchQuery
    /\ searchResults' = s.searchResults
    /\ currentSearchIndex' = s.currentSearchIndex
    /\ replaceTextValue' = s.replaceTextValue
    /\ replacePreview' = s.replacePreview
    /\ undoStack' = s.undoStack
    /\ redoStack' = s.redoStack
    /\ nextId' = s.nextId

\* the model's bounds on a state
WithinBounds(s) ==
    /\ s.nextId <= MaxId + 1
    /\ Len(s.undoStack) + Len(s.redoStack) <= MaxHist

(***************************************************************************)
(* uuid freshness.  A generated id is one nothing refers to.  An id that   *)
(* no part of the state refers to any longer is as good as never used, so  *)
(* after each call the generator continues after the largest id the state  *)
(* still refers to.                                                        *)
(***************************************************************************)
NodeRefs(node) == {node.id, node.parentId} \cup Range(node.children)
NodesRefs(nodes) == DOMAIN nodes \cup UNION {NodeRefs(nodes[i]) : i \in DOMAIN nodes}
DocRefs(doc) == {doc.rootId} \cup NodesRefs(doc.nodes)

CommandRefs(command) ==
    CASE command.type = "UPDATE_VALUE" -> {command.id}
      [] command.type = "RENAME_KEY" -> {command.id}
      [] command.type = "ADD_NODE" -> {command.parentId} \cup NodeRefs(command.node)
      [] command.type = "DELETE_NODE" ->
            {command.parentId} \cup NodeRefs(command.node) \cup NodesRefs(command.subtree)
      [] command.type = "MOVE_ARRAY_ITEM" -> {command.parentId}
      [] command.type = "CHANGE_TYPE" ->
            {command.id} \cup NodeRefs(command.oldNode) \cup NodeRefs(command.newNode)
                \cup NodesRefs(command.removedSubtree)
      [] command.type = "REPLACE_DOCUMENT" ->
            DocRefs(command.before) \cup DocRefs(command.after)
                \cup {command.beforeSelectedId, command.afterSelectedId}
                \cup command.beforeExpandedIds \cup command.afterExpandedIds

StackRefs(stack) == UNION {CommandRefs(stack[i]) : i \in DOMAIN stack}

UsedIds(s) ==
    DocRefs(s.document) \cup {s.selectedId, s.focusRootId} \cup s.expandedIds
        \cup s.multiSelectedIds \cup Range(s.searchResults)
        \cup {s.replacePreview[i].id : i \in DOMAIN s.replacePreview}
        \cup StackRefs(s.undoStack) \cup StackRefs(s.redoStack)

MaxOf(S) == CHOOSE m \in S : \A x \in S : x <= m

generateId(s) == [s EXCEPT !.nextId = 1 + MaxOf(UsedIds(s) \cup {NoId})]

Call(s) ==
    /\ WithinBounds(s)
    /\ Install(generateId(s))
    /\ UNCHANGED calcVars

(***************************************************************************)
(* Inputs.                                                                 *)
(***************************************************************************)
Num(d) == JNum(<<d>>)
DocA == JObj(<< <<<<"b">>, Num("1")>>, <<<<"a">>, JArr(<<Num("2"), JStr(<<"a">>)>>)>> >>)
DocB == JObj(<< <<<<"x", "'">>, JArr(<<JBool(TRUE), JNull>>)>> >>)
InitialJson == {DocA, DocB}

\* ids the handlers are called with: nodes 1..4 of DocA and DocB, and an id no
\* node of a reachable state has
AbsentId == MaxId + 1
ExistingIds == DOMAIN document.nodes
UpdateIds == {3, 4}
ValueInputs == {[vt |-> "string", s |-> <<"a">>]}
ChangeTypeIds == {2, 3, AbsentId}
TypeInputs == {"string", "object"}
MoveParents == {2, 3}
MoveInputs == {<<0, 1>>, <<1, 1>>, <<0, 2>>, <<-1, 0>>}
Undef == [has |-> FALSE, key |-> <<>>]
Key(k) == [has |-> TRUE, key |-> k]
AddInputs == {[parentId |-> 1, type |-> "object", key |-> Undef],
              [parentId |-> 1, type |-> "string", key |-> Key(<<"a">>)],
              [parentId |-> 3, type |-> "null", key |-> Undef],
              [parentId |-> 3, type |-> "array", key |-> Key(<<"a">>)],
              [parentId |-> 4, type |-> "number", key |-> Undef],
              [parentId |-> AbsentId, type |-> "boolean", key |-> Undef]}
DeleteIds == {1, 3, 4, AbsentId}
RenameIds == {1, 3, 4, AbsentId}
RenameInputs == {<<"a">>, <<"b">>, <<" ", "'">>}
InvalidJson == [valid |-> FALSE, value |-> JNull]
PasteTargets == {1, 3, 4}
PasteInputs == {InvalidJson,
                [valid |-> TRUE, value |-> JObj(<< <<<<"a">>, JNull>> >>)],
                [valid |-> TRUE, value |-> JArr(<<JBool(TRUE)>>)]}
PasteModes == {"replace", "append", "insert"}
SortIds == {1, 3}
IncomingInputs == {JObj(<< <<<<"a">>, Num("1")>> >>), JArr(<<Num("2")>>)}
SelectInputs == {4}
ExpandInputs == {3}
MultiSelectInputs == {3, 4}
QueryInputs == {<<"a">>}
ReplaceTextInputs == {<<"b">>}

(***************************************************************************)
(* Guard cases of a call, from its arguments and the state before it.      *)
(***************************************************************************)
Missing(id) == id \notin DOMAIN document.nodes
IsRoot(id) == ~Missing(id) /\ document.nodes[id].parentId = NoId

MoveGuard(parentId, fromIndex, toIndex) ==
    IF Missing(parentId) \/ document.nodes[parentId].type # "array" THEN "notArray"
    ELSE IF fromIndex < 0 \/ toIndex < 0
            \/ fromIndex >= Len(document.nodes[parentId].children)
            \/ toIndex >= Len(document.nodes[parentId].children) THEN "badIndex"
    ELSE IF fromIndex = toIndex THEN "equalIndex"
    ELSE "none"

ChangeTypeGuard(id, nextType) ==
    IF Missing(id) THEN "missing"
    ELSE IF document.nodes[id].type = nextType THEN "sameType" ELSE "none"

AddGuard(parentId) ==
    IF Missing(parentId) THEN "missingParent"
    ELSE IF document.nodes[parentId].type \notin ContainerTypes THEN "nonContainer" ELSE "none"

NodeGuard(id) ==
    IF Missing(id) THEN "missing" ELSE IF IsRoot(id) THEN "root" ELSE "none"

StackGuard(stack) == IF Len(stack) = 0 THEN "emptyStack" ELSE "none"

(***************************************************************************)
(* Actions: one per handler.                                               *)
(***************************************************************************)
SetDocument ==
    \E json \in InitialJson, markAsSaved \in BOOLEAN :
        /\ Call(setDocumentWithMeta(St, jsonToAst(json), markAsSaved))

MarkSaved == /\ Call(markSaved(St))

UpdateNodeValue ==
    \E id \in UpdateIds, value \in ValueInputs : /\ Call(updateNodeValue(St, id, value))

ChangeNodeType ==
    \E id \in ChangeTypeIds, nextType \in TypeInputs : /\ Call(changeNodeType(St, id, nextType))

MoveArrayItem ==
    \E parentId \in MoveParents, move \in MoveInputs :
        /\ Call(moveArrayItem(St, parentId, move[1], move[2]))

AddNode ==
    \E in \in AddInputs : /\ Call(addNode(St, in.parentId, in.type, in.key.has, in.key.key))

DeleteNode == \E id \in DeleteIds : /\ Call(deleteNode(St, id))

RenameNodeKey ==
    \E id \in RenameIds, newKey \in RenameInputs : /\ Call(renameNodeKey(St, id, newKey))

Undo == /\ Call(undo(St))

Redo == /\ Call(redo(St))

PasteNodeJson ==
    \E targetId \in PasteTargets, rawJson \in PasteInputs, mode \in PasteModes :
        /\ Call(pasteNodeJson(St, targetId, rawJson, mode))

SortObjectKeys ==
    \E nodeId \in SortIds, direction \in {"asc", "desc"} :
        /\ Call(sortObjectKeys(St, nodeId, direction))

FormatDocument == \E mode \in {"pretty", "minify", "sort"} : /\ Call(formatDocument(St, mode))

ApplyDiffSelection ==
    \E incoming \in IncomingInputs :
        /\ Call(applyDiffSelection(St, diffJson(astToJson(document), incoming)))

ToggleMultiSelect ==
    \E nodeId \in MultiSelectInputs : /\ Call(toggleMultiSelect(St, nodeId))

BatchDeleteSelected == /\ Call(batchDeleteSelected(St))

SelectNode ==
    \E id \in (ExistingIds \cap SelectInputs) \cup {NoId} : /\ Call(selectNode(St, id))

ToggleExpand == \E id \in ExistingIds \cap ExpandInputs : /\ Call(toggleExpand(St, id))

SetSearchQuery == \E query \in QueryInputs : /\ Call(setSearchQuery(St, query))

SetReplaceTextValue == \E value \in ReplaceTextInputs : /\ Call(setReplaceTextValue(St, value))

BuildReplacePreview == /\ Call(buildReplacePreview(St))

ApplyReplacePreview == /\ Call(applyReplacePreview(St))

\* the store as created
InitStore ==
    /\ document = InitialState.document
    /\ isDirty = InitialState.isDirty
    /\ selectedId = InitialState.selectedId
    /\ expandedIds = InitialState.expandedIds
    /\ focusRootId = InitialState.focusRootId
    /\ multiSelectedIds = InitialState.multiSelectedIds
    /\ searchQuery = InitialState.searchQuery
    /\ searchResults = InitialState.searchResults
    /\ currentSearchIndex = InitialState.currentSearchIndex
    /\ replaceTextValue = InitialState.replaceTextValue
    /\ replacePreview = InitialState.replacePreview
    /\ undoStack = InitialState.undoStack
    /\ redoStack = InitialState.redoStack
    /\ nextId = InitialState.nextId

Init ==
    /\ InitStore
    /\ calcPc = "idle"
    /\ calcIn = <<>>
    /\ calcOut = <<>>

\* editing: loading, saving, the mutations, undo and redo, selection and expansion
Next ==
    \/ SetDocument
    \/ MarkSaved
    \/ UpdateNodeValue
    \/ ChangeNodeType
    \/ MoveArrayItem
    \/ AddNode
    \/ DeleteNode
    \/ RenameNodeKey
    \/ Undo
    \/ Redo
    \/ PasteNodeJson
    \/ SortObjectKeys
    \/ FormatDocument
    \/ ApplyDiffSelection
    \/ SelectNode
    \/ ToggleExpand

Spec == Init /\ [][Next]_vars

\* multi-selection and batch deletion, among edits that make selections stale
NextSelection ==
    \/ SetDocument
    \/ ToggleMultiSelect
    \/ BatchDeleteSelected
    \/ AddNode
    \/ DeleteNode
    \/ ChangeNodeType
    \/ SelectNode
    \/ ToggleExpand
    \/ Undo
    \/ Redo

SpecSelection == Init /\ [][NextSelection]_vars

\* search and replace, among edits that make results and previews stale
NextSearch ==
    \/ SetDocument
    \/ SetSearchQuery
    \/ SetReplaceTextValue
    \/ BuildReplacePreview
    \/ ApplyReplacePreview
    \/ UpdateNodeValue
    \/ RenameNodeKey
    \/ DeleteNode
    \/ Undo
    \/ Redo

SpecSearch == Init /\ [][NextSearch]_vars

(***************************************************************************)
(* The pure functions of utils/parser and utils/jsonDiff, applied to       *)
(* inputs drawn when the run starts.                                       *)
(***************************************************************************)
Prims == {JNull, JBool(TRUE), Num("1"), JStr(<<"a">>)}
KeyInputs == {<<"a">>, <<>>, <<"0">>, <<"b", " ", "c">>}

CodecInputs ==
    Prims \cup {JArr(<<>>), JEmptyObj}
    \cup {JArr(<<p, q>>) : p \in Prims, q \in Prims}
    \cup {JObj(<< <<k, p>> >>) : k \in KeyInputs, p \in Prims}
    \cup {JObj(<< <<k, JArr(<<p>>)>>, <<<<"b">>, JObj(<< <<k, p>> >>)>> >>) :
            k \in KeyInputs, p \in Prims}

InitCodec ==
    /\ InitStore
    /\ calcPc = "value"
    /\ calcIn \in {<<v>> : v \in CodecInputs}
    /\ calcOut = <<>>

JsonToAst ==
    /\ calcPc = "value"
    /\ calcPc' = "document"
    /\ calcOut' = <<jsonToAst(calcIn[1])>>
    /\ UNCHANGED <<storeVars, nextId, calcIn>>

AstToJson ==
    /\ calcPc = "document"
    /\ calcPc' = "json"
    /\ calcOut' = <<calcOut[1], astToJson(calcOut[1])>>
    /\ UNCHANGED <<storeVars, nextId, calcIn>>

\* the JSON Pointer of a node (RFC 6901), as a validator reports it: one
\* token per step from the root, "~" written ~0 and "/" written ~1
EncodePointerToken(key) == ReplaceEach(ReplaceEach(key, <<"~">>, <<"~", "0">>), <<"/">>, <<"~", "1">>)

RECURSIVE JsonPointerOf(_, _)
JsonPointerOf(doc, id) ==
    LET node == doc.nodes[id]
    IN IF node.parentId = NoId THEN <<>>
       ELSE LET parent == doc.nodes[node.parentId]
                token == IF parent.type = "array"
                         THEN NumToStr(IndexOf(parent.children, id) - 1)
                         ELSE EncodePointerToken(node.key)
            IN JsonPointerOf(doc, node.parentId) \o <<"/">> \o token

\* the pointer of every node of the document, translated to a path
JsonPointerToJsonPath ==
    /\ calcPc = "document"
    /\ calcPc' = "paths"
    /\ calcOut' = <<calcOut[1],
                    [id \in DOMAIN calcOut[1].nodes |->
                        jsonPointerToJsonPath(JsonPointerOf(calcOut[1], id))]>>
    /\ UNCHANGED <<storeVars, nextId, calcIn>>

NextCodec ==
    \/ JsonToAst
    \/ AstToJson
    \/ JsonPointerToJsonPath

SpecCodec == InitCodec /\ [][NextCodec]_vars

DiffInputs ==
    {JNull, Num("1"), JStr(<<"a">>),
     JArr(<<>>), JArr(<<Num("1")>>), JArr(<<Num("1"), Num("2")>>),
     JArr(<<Num("1"), Num("2"), Num("3")>>), JArr(<<Num("2"), Num("1")>>),
     JEmptyObj, JObj(<< <<<<"a">>, Num("1")>> >>),
     JObj(<< <<<<"a">>, Num("1")>>, <<<<"b">>, Num("2")>> >>),
     JObj(<< <<<<"b">>, Num("2")>>, <<<<"a">>, Num("1")>> >>),
     JObj(<< <<<<"a">>, JArr(<<Num("1"), Num("2")>>)>> >>),
     JObj(<< <<<<"a">>, JObj(<< <<<<"b", " ", "c">>, JNull>> >>)>> >>),
     JArr(<<JObj(<< <<<<"a">>, Num("1")>>, <<<<"b">>, Num("2")>> >>)>>),
     JArr(<<JObj(<< <<<<"b">>, Num("2")>>, <<<<"a">>, Num("1")>> >>)>>)}

InitDiff ==
    /\ InitStore
    /\ calcPc = "values"
    /\ calcIn \in {<<a, b>> : a \in DiffInputs, b \in DiffInputs}
    /\ calcOut = <<>>

DiffJson ==
    /\ calcPc = "values"
    /\ calcPc' = "entries"
    /\ calcOut' = <<diffJson(calcIn[1], calcIn[2])>>
    /\ UNCHANGED <<storeVars, nextId, calcIn>>

ApplyDiffEntries ==
    /\ calcPc = "entries"
    /\ calcPc' = "applied"
    /\ calcOut' = <<calcOut[1], applyDiffEntries(calcIn[1], calcOut[1])>>
    /\ UNCHANGED <<storeVars, nextId, calcIn>>

NextDiff ==
    \/ DiffJson
    \/ ApplyDiffEntries

SpecDiff == InitDiff /\ [][NextDiff]_vars

(***************************************************************************)
(* Calls.  A call is the state a handler is called in and the state it     *)
(* leaves: [pre, post].  The handlers that need a multi-selection or a     *)
(* replace preview are called after the calls that set those up.           *)
(***************************************************************************)
CallOf(pre, post) == [pre |-> pre, post |-> post]

FineCalls(s) ==
    {CallOf(s, updateNodeValue(s, id, value)) : id \in UpdateIds, value \in ValueInputs}
    \cup {CallOf(s, changeNodeType(s, id, nextType)) : id \in ChangeTypeIds, nextType \in TypeInputs}
    \cup {CallOf(s, moveArrayItem(s, parentId, move[1], move[2])) :
            parentId \in MoveParents, move \in MoveInputs}
    \cup {CallOf(s, addNode(s, in.parentId, in.type, in.key.has, in.key.key)) : in \in AddInputs}
    \cup {CallOf(s, deleteNode(s, id)) : id \in DeleteIds}
    \cup {CallOf(s, renameNodeKey(s, id, newKey)) : id \in RenameIds, newKey \in RenameInputs}

BulkCalls(s) ==
    {CallOf(s, pasteNodeJson(s, targetId, rawJson, mode)) :
        targetId \in PasteTargets, rawJson \in PasteInputs, mode \in PasteModes}
    \cup {CallOf(s, sortObjectKeys(s, nodeId, direction)) :
            nodeId \in SortIds, direction \in {"asc", "desc"}}
    \cup {CallOf(s, formatDocument(s, mode)) : mode \in {"pretty", "minify", "sort"}}
    \cup {CallOf(s, applyDiffSelection(s, diffJson(astToJson(s.document), incoming))) :
            incoming \in IncomingInputs}

MultiSelections(s) ==
    {s} \cup {toggleMultiSelect(s, a) : a \in MultiSelectInputs}
        \cup {toggleMultiSelect(toggleMultiSelect(s, a), b) : a \in MultiSelectInputs, b \in MultiSelectInputs}

BatchCalls(s) == {CallOf(m, batchDeleteSelected(m)) : m \in MultiSelections(s)}

ReplacePreviews(s) ==
    {buildReplacePreview(setReplaceTextValue(setSearchQuery(s, query), value)) :
        query \in QueryInputs, value \in ReplaceTextInputs \cup {<<>>}}

ReplaceCalls(s) == {CallOf(r, applyReplacePreview(r)) : r \in ReplacePreviews(s)}

MutationCalls(s) == FineCalls(s) \cup BulkCalls(s) \cup BatchCalls(s) \cup ReplaceCalls(s)

\* the call pushed a history command
Committed(call) == Len(call.post.undoStack) = Len(call.pre.undoStack) + 1

(***************************************************************************)
(* hooks/useFileIO: saving and loading.  An await is a position at which   *)
(* the callback waits while the events of the page (edits, undo, redo) go  *)
(* on; calcPc is that position, calcIn what the callback holds in its      *)
(* locals, calcOut the text of the file last written.                      *)
(***************************************************************************)
Spaces(n) == [i \in 1..n |-> " "]

\* the characters JSON.stringify writes between the quotes of a string
RECURSIVE EscapeJsonString(_)
EscapeJsonString(chars) ==
    IF chars = <<>> THEN <<>>
    ELSE (CASE Head(chars) = "\"" -> <<"\\", "\"">>
            [] Head(chars) = "\\" -> <<"\\", "\\">>
            [] Head(chars) = "\n" -> <<"\\", "n">>
            [] Head(chars) = "\r" -> <<"\\", "r">>
            [] Head(chars) = "\t" -> <<"\\", "t">>
            [] OTHER -> <<Head(chars)>>)
         \o EscapeJsonString(Tail(chars))

Quoted(chars) == <<"\"">> \o EscapeJsonString(chars) \o <<"\"">>

\* JSON.stringify(value, null, 2), the text of a value nested indent deep
RECURSIVE stringify(_, _)
RECURSIVE StringifyItems(_, _, _)
stringify(value, indent) ==
    CASE value.t = "string" -> Quoted(value.s)
      [] value.t = "array" ->
            IF value.xs = <<>> THEN <<"[", "]">>
            ELSE <<"[", "\n">> \o StringifyItems(value, indent + 2, 1)
                 \o <<"\n">> \o Spaces(indent) \o <<"]">>
      [] value.t = "object" ->
            IF value.xs = <<>> THEN <<"{", "}">>
            ELSE <<"{", "\n">> \o StringifyItems(value, indent + 2, 1)
                 \o <<"\n">> \o Spaces(indent) \o <<"}">>
      [] value.t \in {"number", "boolean"} -> value.s
      [] OTHER -> <<"n", "u", "l", "l">>

StringifyItems(value, indent, i) ==
    Spaces(indent)
    \o (IF value.t = "object" THEN Quoted(value.xs[i].k) \o <<":", " ">> ELSE <<>>)
    \o stringify(value.xs[i].v, indent)
    \o (IF i < Len(value.xs) THEN <<",", "\n">> \o StringifyItems(value, indent, i + 1) ELSE <<>>)

\* answer is what confirm() returns when the user is asked
confirmReplaceIfDirty(s, answer) == IF ~s.isDirty THEN TRUE ELSE answer

\* text: [valid |-> whether JSON.parse succeeds, value |-> what it returns]
loadJson(s, text) ==
    IF ~text.valid THEN s ELSE setDocumentWithMeta(s, jsonToAst(text.value), TRUE)

\* what a callback knows of its check: whether the document was dirty and
\* whether the user agreed to discard the changes
Checked(answer) == [dirty |-> isDirty, confirmed |-> isDirty /\ answer]

FileInputs == {InvalidJson} \cup {[valid |-> TRUE, value |-> json] : json \in InitialJson}
NoFile == [valid |-> FALSE, value |-> JUndefined]

\* the locals of the callbacks: the result of the check, the file that is
\* read, the text that is saved
NoLocals == [check |-> [dirty |-> FALSE, confirmed |-> FALSE], file |-> NoFile, serialized |-> <<>>]

\* the store changes as the handler says
Store(s) ==
    /\ Install(generateId(s))

CreateNewDocument ==
    /\ calcPc = "idle"
    /\ \E answer \in BOOLEAN :
           /\ confirmReplaceIfDirty(St, answer)
           /\ calcIn' = [NoLocals EXCEPT !.check = Checked(answer)]
           /\ Store(setDocumentWithMeta(St, jsonToAst(JEmptyObj), TRUE))
    /\ UNCHANGED <<calcPc, calcOut>>

\* the check and the click on the file input
OpenFile ==
    /\ calcPc = "idle"
    /\ \E answer \in BOOLEAN :
           /\ confirmReplaceIfDirty(St, answer)
           /\ calcIn' = [NoLocals EXCEPT !.check = Checked(answer)]
    /\ calcPc' = "openFile: dialog"
    /\ UNCHANGED <<storeVars, nextId, calcOut>>

\* input.onchange: no file, or a file whose text is awaited
OpenFileChange ==
    /\ calcPc = "openFile: dialog"
    /\ \E file \in FileInputs \cup {NoFile} :
           /\ calcPc' = (IF file = NoFile THEN "idle" ELSE "await file.text()")
           /\ calcIn' = [calcIn EXCEPT !.file = file]
    /\ UNCHANGED <<storeVars, nextId, calcOut>>

HandleDrop ==
    /\ calcPc = "idle"
    /\ \E file \in FileInputs, answer \in BOOLEAN :
           /\ confirmReplaceIfDirty(St, answer)
           /\ calcIn' = [NoLocals EXCEPT !.check = Checked(answer), !.file = file]
    /\ calcPc' = "await file.text()"
    /\ UNCHANGED <<storeVars, nextId, calcOut>>

\* the text has arrived: loadJson(text, file.name)
FileTextRead ==
    /\ calcPc = "await file.text()"
    /\ Store(loadJson(St, calcIn.file))
    /\ calcPc' = "idle"
    /\ UNCHANGED <<calcIn, calcOut>>

\* the clipboard holds text that starts with { or [; the user is asked about
\* the unsaved changes and then about the paste
HandlePaste ==
    /\ calcPc = "idle"
    /\ \E text \in FileInputs, answer \in BOOLEAN :
           /\ confirmReplaceIfDirty(St, answer)
           /\ calcIn' = [NoLocals EXCEPT !.check = Checked(answer), !.file = text]
           /\ \E paste \in BOOLEAN : Store(IF paste THEN loadJson(St, text) ELSE St)
    /\ UNCHANGED <<calcPc, calcOut>>

\* saveFile up to its first await: the document is serialized and the
\* picker is shown
SaveFile ==
    /\ calcPc = "idle"
    /\ HasDoc(St)
    /\ calcIn' = [NoLocals EXCEPT !.serialized = stringify(astToJson(document), 0)]
    /\ calcPc' = "await showSaveFilePicker()"
    /\ UNCHANGED <<storeVars, nextId, calcOut>>

SaveFilePicked ==
    /\ calcPc = "await showSaveFilePicker()"
    /\ calcPc' = "await writable.close()"
    /\ UNCHANGED <<storeVars, nextId, calcIn, calcOut>>

\* the file is written and closed: markSaved()
SaveFileWritten ==
    /\ calcPc = "await writable.close()"
    /\ calcOut' = <<calcIn.serialized>>
    /\ Store(markSaved(St))
    /\ calcPc' = "saved"
    /\ UNCHANGED calcIn

\* the picker or the write threw: the text is downloaded, markSaved()
SaveFileFallback ==
    /\ calcPc \in {"await showSaveFilePicker()", "await writable.close()"}
    /\ calcOut' = <<calcIn.serialized>>
    /\ Store(markSaved(St))
    /\ calcPc' = "saved"
    /\ UNCHANGED calcIn

\* no showSaveFilePicker in the browser: the text is downloaded, markSaved()
SaveFileDownload ==
    /\ calcPc = "idle"
    /\ HasDoc(St)
    /\ calcIn' = [NoLocals EXCEPT !.serialized = stringify(astToJson(document), 0)]
    /\ calcOut' = <<stringify(astToJson(document), 0)>>
    /\ Store(markSaved(St))
    /\ calcPc' = "saved"

\* saveFile returns
SaveFileReturn ==
    /\ calcPc = "saved"
    /\ calcPc' = "idle"
    /\ UNCHANGED <<storeVars, nextId, calcIn, calcOut>>

\* an event of the page while no callback runs: an edit, undo, redo
PageEvent ==
    /\ calcPc # "saved"
    /\ UpdateNodeValue \/ DeleteNode \/ Undo \/ Redo

InitFileIO ==
    /\ InitStore
    /\ calcPc = "idle"
    /\ calcIn = NoLocals
    /\ calcOut = <<>>

\* loading and saving among the edits of the page
NextFileIO ==
    \/ CreateNewDocument
    \/ OpenFile
    \/ OpenFileChange
    \/ HandleDrop
    \/ FileTextRead
    \/ HandlePaste
    \/ SaveFile
    \/ SaveFilePicked
    \/ SaveFileWritten
    \/ SaveFileFallback
    \/ SaveFileDownload
    \/ SaveFileReturn
    \/ PageEvent

SpecFileIO == InitFileIO /\ [][NextFileIO]_vars

(***************************************************************************)
(* components/editor/SchemaPanel: the validation effect.  The effect runs  *)
(* after a render in which document, schemaText or the enabled flag        *)
(* changed: its cleanup clears the timer of the previous run, then it      *)
(* empties the errors or sets a timer whose callback holds the document    *)
(* and the schema of that render.  Here calcIn is the schema part of the   *)
(* store and whether the user still edits, calcPc the panel (what the last *)
(* run of the effect saw, and its timer), calcOut = schemaErrors.          *)
(***************************************************************************)
\* the name the type keyword of a schema has for a value
JsTypeName(value) ==
    CASE value.t = "string" -> <<"s", "t", "r", "i", "n", "g">>
      [] value.t = "number" -> <<"n", "u", "m", "b", "e", "r">>
      [] value.t = "boolean" -> <<"b", "o", "o", "l", "e", "a", "n">>
      [] value.t = "array" -> <<"a", "r", "r", "a", "y">>
      [] value.t = "object" -> <<"o", "b", "j", "e", "c", "t">>
      [] OTHER -> <<"n", "u", "l", "l">>

RequiredWord == <<"r", "e", "q", "u", "i", "r", "e", "d">>
PropertiesWord == <<"p", "r", "o", "p", "e", "r", "t", "i", "e", "s">>

BlankSchema == [blank |-> TRUE, valid |-> FALSE, value |-> JNull]
BrokenSchema == [blank |-> FALSE, valid |-> FALSE, value |-> JNull]
SchemaOf(value) == [blank |-> FALSE, valid |-> TRUE, value |-> value]

Issue(path, message, keyword) == [path |-> path, message |-> message, keyword |-> keyword]

\* validate.errors of Ajv (allErrors) for a schema with one keyword,
\* `required` or `properties` with a `type` each
RECURSIVE RequiredErrors(_, _, _)
RequiredErrors(names, value, i) ==
    IF i > Len(names) THEN <<>>
    ELSE (IF HasProp(value, names[i].v.s) THEN <<>>
          ELSE <<[instancePath |-> <<>>, keyword |-> "required",
                  missingProperty |-> names[i].v.s,
                  message |-> "must have required property"]>>)
         \o RequiredErrors(names, value, i + 1)

RECURSIVE TypeErrors(_, _, _)
TypeErrors(properties, value, i) ==
    IF i > Len(properties) THEN <<>>
    ELSE LET key == properties[i].k
             type == GetProp(properties[i].v, <<"t", "y", "p", "e">>).s
         IN (IF ~HasProp(value, key) \/ JsTypeName(GetProp(value, key)) = type THEN <<>>
             ELSE <<[instancePath |-> <<"/">> \o EncodePointerToken(key), keyword |-> "type",
                     missingProperty |-> <<>>, message |-> "must be of the type"]>>)
            \o TypeErrors(properties, value, i + 1)

AjvErrors(schema, value) ==
    IF ~isObject(value) THEN <<>>
    ELSE (IF HasProp(schema, RequiredWord)
          THEN RequiredErrors(GetProp(schema, RequiredWord).xs, value, 1) ELSE <<>>)
         \o (IF HasProp(schema, PropertiesWord)
             THEN TypeErrors(GetProp(schema, PropertiesWord).xs, value, 1) ELSE <<>>)

validateJsonWithSchema(schemaText, jsonValue) ==
    IF schemaText.blank THEN <<>>
    ELSE IF ~schemaText.valid THEN <<Issue(<<"$">>, "Unexpected end of JSON input", "schema-parse")>>
    ELSE LET errors == AjvErrors(schemaText.value, jsonValue)
         IN [i \in 1..Len(errors) |->
                LET path == jsonPointerToJsonPath(errors[i].instancePath)
                IN Issue(IF errors[i].keyword = "required" /\ errors[i].missingProperty # <<>>
                         THEN appendKeySegment(path, errors[i].missingProperty) ELSE path,
                         errors[i].message, errors[i].keyword)]

\* rawErrors.map: the node ids are looked up in the store as it is now
MappedErrors(rawErrors, s) ==
    [i \in 1..Len(rawErrors) |->
        [path |-> rawErrors[i].path, message |-> rawErrors[i].message,
         keyword |-> rawErrors[i].keyword,
         nodeId |-> resolvePathToNodeId(s, rawErrors[i].path)]]

\* the issues of a document under a schema, as the panel shows them
ValidationErrors(doc, schemaText, s) ==
    MappedErrors(validateJsonWithSchema(schemaText, astToJson(doc)), s)

NoTimer == [set |-> FALSE, document |-> NoDoc, schemaText |-> BlankSchema]

\* what the effect depends on
Deps == [document |-> document, schemaText |-> calcIn.schemaText,
         schemaValidationEnabled |-> calcIn.schemaValidationEnabled]

SchemaInputs ==
    {BlankSchema, BrokenSchema,
     SchemaOf(JObj(<< <<RequiredWord, JArr(<<JStr(<<"c">>)>>)>> >>)),
     SchemaOf(JObj(<< <<PropertiesWord,
                        JObj(<< <<<<"a">>, JObj(<< <<<<"t", "y", "p", "e">>,
                                                      JStr(<<"s","t","r","i","n","g">>)>> >>)>> >>)>> >>))}

InitSchema ==
    /\ InitStore
    /\ calcIn = [schemaText |-> BlankSchema, schemaValidationEnabled |-> TRUE, editing |-> TRUE]
    /\ calcPc = [deps |-> [document |-> NoDoc, schemaText |-> BlankSchema,
                           schemaValidationEnabled |-> TRUE],
                 timer |-> NoTimer]
    /\ calcOut = <<>>

\* the user loads a document, edits it, undoes or redoes
EditDocument ==
    /\ calcIn.editing
    /\ SetDocument \/ UpdateNodeValue \/ DeleteNode \/ Undo \/ Redo

SetSchemaText ==
    /\ calcIn.editing
    /\ \E schemaText \in SchemaInputs : calcIn' = [calcIn EXCEPT !.schemaText = schemaText]
    /\ UNCHANGED <<storeVars, nextId, calcPc, calcOut>>

SetSchemaValidationEnabled ==
    /\ calcIn.editing
    /\ \E enabled \in BOOLEAN : calcIn' = [calcIn EXCEPT !.schemaValidationEnabled = enabled]
    /\ UNCHANGED <<storeVars, nextId, calcPc, calcOut>>

\* document and schema change no more
StopEditing ==
    /\ calcIn.editing
    /\ calcIn' = [calcIn EXCEPT !.editing = FALSE]
    /\ UNCHANGED <<storeVars, nextId, calcPc, calcOut>>

\* the effect without its cleanup: a timer that is pending is left alone
RunEffectWithoutCleanup ==
    /\ calcPc.deps # Deps
    /\ IF ~calcIn.schemaValidationEnabled \/ ~HasDoc(St)
       THEN /\ calcOut' = <<>>
            /\ calcPc' = [deps |-> Deps, timer |-> NoTimer]
       ELSE /\ calcOut' = calcOut
            /\ calcPc' = [deps |-> Deps,
                          timer |-> IF calcPc.timer.set THEN calcPc.timer
                                    ELSE [set |-> TRUE, document |-> document,
                                          schemaText |-> calcIn.schemaText]]
    /\ UNCHANGED <<storeVars, nextId, calcIn>>

\* the effect after a render with changed dependencies: the cleanup of the
\* previous run, then the body
RunEffect ==
    /\ calcPc.deps # Deps
    /\ IF ~calcIn.schemaValidationEnabled \/ ~HasDoc(St)
       THEN /\ calcOut' = <<>>
            /\ calcPc' = [deps |-> Deps, timer |-> NoTimer]
       ELSE /\ calcOut' = calcOut
            /\ calcPc' = [deps |-> Deps,
                          timer |-> [set |-> TRUE, document |-> document,
                                     schemaText |-> calcIn.schemaText]]
    /\ UNCHANGED <<storeVars, nextId, calcIn>>

\* 400 ms have passed since the timer was set: its callback runs with the
\* document and the schema of the render that set it.  A store update is
\* rendered and its effect run before the page takes the next timer, so no
\* timer fires between a change and the effect of that change.
TimerFires ==
    /\ calcPc.timer.set
    /\ calcPc.deps = Deps
    /\ \E jsonValue \in {astToJson(calcPc.timer.document)} :
       \E rawErrors \in {validateJsonWithSchema(calcPc.timer.schemaText, jsonValue)} :
          calcOut' = MappedErrors(rawErrors, St)
    /\ calcPc' = [calcPc EXCEPT !.timer = NoTimer]
    /\ UNCHANGED <<storeVars, nextId, calcIn>>

NextSchema ==
    \/ EditDocument
    \/ SetSchemaText
    \/ SetSchemaValidationEnabled
    \/ StopEditing
    \/ RunEffect
    \/ TimerFires

SpecSchema == InitSchema /\ [][NextSchema]_vars

\* React runs the effect after the render, and a timer that is set fires
SpecSchemaLive == SpecSchema /\ WF_vars(RunEffect) /\ WF_vars(TimerFires)

(***************************************************************************)
(* Claims.                                                                 *)
(***************************************************************************)

\* C1 (undo inverse): in every reachable state with a loaded document, each
\* committed mutation followed by undo() gives back exactly the document the
\* mutation was called on, and a following redo() gives exactly the document
\* the mutation left.
C1_UndoInverse ==
    HasDoc(St) =>
        \A call \in MutationCalls(St) :
            Committed(call) =>
                /\ undo(call.post).document = call.pre.document
                /\ redo(undo(call.post)).document = call.post.document

\* a node was deleted and the deletion undone: the document is the loaded one again
C1_Witness ==
    /\ Len(redoStack) = 1
    /\ redoStack[1].type = "DELETE_NODE"
    /\ document = jsonToAst(DocA)
    /\ \E call \in BulkCalls(St) : Committed(call)

\* C2 (history linearity): every committed mutation leaves redoStack empty,
\* also when called after an undo, and a redo() after it changes nothing.
C2_HistoryLinear ==
    \A call \in MutationCalls(St) :
        Committed(call) =>
            /\ call.post.redoStack = <<>>
            /\ redo(call.post) = call.post

\* an undo has filled the redo stack, and a mutation commits in that state
C2_Witness ==
    /\ Len(redoStack) = 1
    /\ \E call \in MutationCalls(St) : Committed(call) /\ call.pre.redoStack # <<>>

KeysUnique(doc) ==
    \A p \in DOMAIN doc.nodes :
        doc.nodes[p].type = "object" =>
            \A i, j \in DOMAIN doc.nodes[p].children :
                LET a == doc.nodes[p].children[i]
                    b == doc.nodes[p].children[j]
                IN (i # j /\ a \in DOMAIN doc.nodes /\ b \in DOMAIN doc.nodes
                    /\ doc.nodes[a].hasKey /\ doc.nodes[b].hasKey)
                   => doc.nodes[a].key # doc.nodes[b].key

\* C3 (key uniqueness): in every reachable state, and after every further
\* mutation called in it (addNode, renameNodeKey, pasteNodeJson,
\* applyReplacePreview among them), no two children of an object node have the
\* same key.
C3_KeyUniqueness ==
    /\ KeysUnique(document)
    /\ \A call \in MutationCalls(St) : KeysUnique(call.post.document)

\* a key that was taken got a suffix: "b" is there and so is "b_1"
C3_Witness ==
    /\ HasDoc(St)
    /\ \E a, b \in DOMAIN document.nodes :
        /\ document.nodes[a].parentId = document.nodes[b].parentId
        /\ document.nodes[a].parentId \in DOMAIN document.nodes
        /\ document.nodes[document.nodes[a].parentId].type = "object"
        /\ document.nodes[a].hasKey /\ document.nodes[a].key = <<"b">>
        /\ document.nodes[b].hasKey /\ document.nodes[b].key = <<"b", "_", "1">>

\* C4 (diff/patch inverse): applying all the entries diffJson(a, b) produced,
\* in their order, to a gives a value deep-equal to b.
C4_DiffPatchInverse ==
    calcPc = "applied" => DeepEqual(calcOut[2], calcIn[2])

\* C5 (codec round trip): astToJson(jsonToAst(v)) is deep-equal to v.
C5_CodecRoundTrip ==
    calcPc = "json" => DeepEqual(calcOut[2], calcIn[1])

\* keys a path has to quote, escape or tell from an index
PathKeys ==
    {<<"'">>, <<"\\">>, <<"a", ".", "b">>, <<"a", "]">>, <<"[", "0", "]">>, <<"0">>,
     <<"$">>, <<"a", " ", "b">>, <<"\\", "'">>, <<"_", "1">>, <<"1", "a">>}

NonRootIds(doc) == DOMAIN doc.nodes \ {doc.rootId}

PathRoundTrip(s) ==
    \A n \in NonRootIds(s.document) : resolvePathToNodeId(s, buildJsonPath(s, n)) = n

\* C6 (path round trip): in every reachable state, after renaming a node to a
\* key that needs the bracket-quoted form, and after loading a document whose
\* keys are empty, numeric or hold a space, the path built for each node other
\* than the root resolves to that node.
C6_PathRoundTrip ==
    /\ HasDoc(St) =>
        /\ PathRoundTrip(St)
        /\ \A id \in RenameIds, key \in PathKeys : PathRoundTrip(renameNodeKey(St, id, key))
    /\ ~HasDoc(St) =>
        \A json \in CodecInputs : PathRoundTrip(setDocumentWithMeta(St, jsonToAst(json), TRUE))

\* the items of an array under a bracket-quoted key were reordered
C6_Witness ==
    /\ Len(undoStack) = 1
    /\ undoStack[1].type = "MOVE_ARRAY_ITEM"
    /\ ~IsIdentifier(document.nodes[undoStack[1].parentId].key)
    /\ document.nodes[undoStack[1].parentId].children = <<4, 3>>

RefIntegrity(doc) ==
    /\ doc.rootId \in DOMAIN doc.nodes
    /\ doc.nodes[doc.rootId].parentId = NoId
    /\ \A id \in DOMAIN doc.nodes :
        \A i \in DOMAIN doc.nodes[id].children :
            /\ doc.nodes[id].children[i] \in DOMAIN doc.nodes
            /\ doc.nodes[doc.nodes[id].children[i]].parentId = id

\* C7 (referential integrity): in every reachable state with a document, and
\* after every further mutation called in it, every id in a children list is
\* a node whose parentId is the owner of the list, and the root has no
\* parentId.
C7_RefIntegrity ==
    HasDoc(St) =>
        /\ RefIntegrity(document)
        /\ \A call \in MutationCalls(St) : RefIntegrity(call.post.document)

\* a node with descendants was deleted: its subtree is in the command and no
\* longer in the document
C7_Witness ==
    /\ Len(undoStack) = 1
    /\ undoStack[1].type = "DELETE_NODE"
    /\ DOMAIN undoStack[1].subtree # {}
    /\ undoStack[1].node.id \notin DOMAIN document.nodes
    /\ isDirty

NodeTypes == {"string", "number", "boolean", "null", "object", "array"}

\* C8 (no-op guards): moveArrayItem with equal, negative or out-of-range
\* indices or on a parent that is no array, changeNodeType to the current
\* type, addNode on a missing or non-container parent, deleteNode and
\* renameNodeKey on the root or a missing node, and undo and redo with an
\* empty stack leave every field of the state as it was.
C8_NoOpGuards ==
    /\ \A parentId \in MoveParents \cup {1, AbsentId}, move \in MoveInputs :
        MoveGuard(parentId, move[1], move[2]) # "none"
            => moveArrayItem(St, parentId, move[1], move[2]) = St
    /\ \A id \in ChangeTypeIds, nextType \in NodeTypes :
        ChangeTypeGuard(id, nextType) = "sameType" => changeNodeType(St, id, nextType) = St
    /\ \A in \in AddInputs :
        AddGuard(in.parentId) # "none"
            => addNode(St, in.parentId, in.type, in.key.has, in.key.key) = St
    /\ \A id \in DeleteIds : NodeGuard(id) # "none" => deleteNode(St, id) = St
    /\ \A id \in RenameIds, newKey \in RenameInputs :
        NodeGuard(id) # "none" => renameNodeKey(St, id, newKey) = St
    /\ StackGuard(undoStack) # "none" => undo(St) = St
    /\ StackGuard(redoStack) # "none" => redo(St) = St

\* a state with a document, an empty undo stack after an undo, and calls of
\* every guarded kind
C8_Witness ==
    /\ HasDoc(St)
    /\ undoStack = <<>>
    /\ redoStack # <<>>
    /\ MoveGuard(3, 1, 1) = "equalIndex"
    /\ MoveGuard(3, 0, 2) = "badIndex"
    /\ MoveGuard(2, 0, 1) = "notArray"
    /\ ChangeTypeGuard(3, "array") = "sameType"
    /\ AddGuard(4) = "nonContainer"
    /\ NodeGuard(1) = "root"

\* the calls that are no mutation, undo or redo
UiResults(s) ==
    {selectNode(s, id) : id \in SelectInputs \cup {NoId}}
    \cup {toggleExpand(s, id) : id \in ExpandInputs \cap DOMAIN s.document.nodes}
    \cup {toggleMultiSelect(s, id) : id \in MultiSelectInputs}
    \cup {setSearchQuery(s, query) : query \in QueryInputs \cup {<<>>}}
    \cup {setReplaceTextValue(s, value) : value \in ReplaceTextInputs}
    \cup {buildReplacePreview(r) : r \in ReplacePreviews(s)}
    \cup {nextSearchResult(setSearchQuery(s, query)) : query \in QueryInputs}

\* C9 (dirty flag): every committed mutation and every undo and redo that has
\* a command to work on leaves isDirty true; when isDirty is true, it is
\* still true after any mutation, undo, redo, selection, expansion or search
\* call; markSaved sets it to false.
C9_DirtyFlag ==
    /\ \A call \in MutationCalls(St) : Committed(call) => call.post.isDirty
    /\ (HasDoc(St) /\ undoStack # <<>>) => undo(St).isDirty
    /\ (HasDoc(St) /\ redoStack # <<>>) => redo(St).isDirty
    /\ isDirty =>
        /\ \A call \in MutationCalls(St) : call.pre.isDirty /\ call.post.isDirty
        /\ undo(St).isDirty
        /\ redo(St).isDirty
        /\ \A post \in UiResults(St) : post.isDirty
    /\ ~markSaved(St).isDirty

\* the one edit of the loaded document was undone: the content is the loaded
\* one again and isDirty is true
C9_Witness ==
    /\ isDirty
    /\ document = jsonToAst(DocA)
    /\ undoStack = <<>>
    /\ Len(redoStack) = 1

\* C10 (expanded-set consistency): expandedIds holds no id of a node that is
\* absent from the document.
C10_ExpandedExist ==
    HasDoc(St) => expandedIds \subseteq DOMAIN document.nodes

\* C11 (selection consistency): selectedId is null or the id of a node of the
\* document, selectNode being called with ids of existing nodes only.
C11_SelectedExists ==
    HasDoc(St) => (selectedId = NoId \/ selectedId \in DOMAIN document.nodes)

\* the object nodes of the document that have children
ObjectsWithChildren(s) ==
    {id \in DOMAIN s.document.nodes :
        /\ s.document.nodes[id].type = "object"
        /\ s.document.nodes[id].hasChildren
        /\ s.document.nodes[id].children # <<>>}

\* C12 (type change prunes, undo restores): changeNodeType of an object node
\* with children to "string" removes every descendant id from the document
\* and from expandedIds; undo() then gives back the document with the
\* descendants and an expandedIds equal to the one before the type change.
C12_ChangeTypePruneUndo ==
    HasDoc(St) =>
        \A id \in ObjectsWithChildren(St) :
            LET below == collectDescendantIds(document.nodes, id)
                post == changeNodeType(St, id, "string")
            IN /\ below \cap DOMAIN post.document.nodes = {}
               /\ below \cap post.expandedIds = {}
               /\ undo(post).document = document
               /\ undo(post).expandedIds = expandedIds

KeyPresence(doc) ==
    \A id \in DOMAIN doc.nodes :
        doc.nodes[id].hasKey <=>
            /\ doc.nodes[id].parentId \in DOMAIN doc.nodes
            /\ doc.nodes[doc.nodes[id].parentId].type = "object"

\* C13 (key presence): in every reachable state a node has a defined key if
\* and only if its parent is an object node; array items and the root carry
\* no key.
C13_KeyPresence ==
    HasDoc(St) => KeyPresence(document)

\* the states a document may be installed in: the reachable state, and the
\* state after one more selection, focus, multi-selection or search call
StatesBeforeInstall(s) ==
    {s} \cup UiResults(s) \cup {toggleFocusMode(s, id) : id \in SelectInputs \cup {NoId}}

\* the state right after doc was installed, isDirty apart
Installed(post, doc) ==
    /\ post.document = doc
    /\ post.selectedId = NoId
    /\ post.expandedIds = {doc.rootId}
    /\ post.focusRootId = NoId
    /\ post.multiSelectedIds = {}
    /\ post.searchQuery = <<>>
    /\ post.searchResults = <<>>
    /\ post.currentSearchIndex = -1
    /\ post.undoStack = <<>>
    /\ post.redoStack = <<>>

\* C14 (installing a document): whatever the state before, setDocument and
\* setDocumentWithMeta install the document with no selection, only the root
\* expanded, no focus, no multi-selection, an empty search and empty undo and
\* redo stacks; isDirty is false after setDocument and NOT markAsSaved after
\* setDocumentWithMeta.
C14_InstallDocument ==
    \A pre \in StatesBeforeInstall(St), json \in InitialJson :
        LET doc == jsonToAst(json)
        IN /\ Installed(setDocument(pre, doc), doc)
           /\ ~setDocument(pre, doc).isDirty
           /\ \A markAsSaved \in BOOLEAN :
                /\ Installed(setDocumentWithMeta(pre, doc, markAsSaved), doc)
                /\ setDocumentWithMeta(pre, doc, markAsSaved).isDirty = ~markAsSaved

\* a document is loaded with a selection, a second node expanded, an edit on
\* the undo stack and a search that has results: installing a document in
\* this state has all of it to reset
C14_Witness ==
    /\ HasDoc(St)
    /\ selectedId # NoId
    /\ expandedIds # {document.rootId}
    /\ undoStack # <<>>
    /\ isDirty
    /\ \E pre \in StatesBeforeInstall(St) : pre.searchResults # <<>> /\ pre.searchQuery # <<>>
    /\ \E pre \in StatesBeforeInstall(St) : pre.focusRootId # NoId
    /\ \E pre \in StatesBeforeInstall(St) : pre.multiSelectedIds # {}

\* the object nodes of the document
ObjectIds(s) == {id \in DOMAIN s.document.nodes : s.document.nodes[id].type = "object"}

\* the keys of the children of parentId other than exceptId
SiblingKeys(nodes, parentId, exceptId) ==
    {nodes[c].key : c \in {c \in Range(nodes[parentId].children) :
                             c # exceptId /\ c \in DOMAIN nodes /\ nodes[c].hasKey}}

WithSuffix(base, n) == base \o <<"_">> \o NumToStr(n)

\* key is base if no sibling has it, otherwise base_n for the smallest n >= 1
\* such that no sibling has base_n
DedupOf(key, base, siblings) ==
    \/ key = base /\ base \notin siblings
    \/ \E n \in 1..(Cardinality(siblings) + 1) :
        /\ key = WithSuffix(base, n)
        /\ base \in siblings
        /\ WithSuffix(base, n) \notin siblings
        /\ \A m \in 1..(n - 1) : WithSuffix(base, m) \in siblings

\* the default of a type: "", 0, false, null, or empty children
IsDefaultOf(node, type) ==
    /\ node.type = type
    /\ node.hasChildren = (type \in {"object", "array"})
    /\ node.children = <<>>
    /\ node.value = CASE type = "string" -> [vt |-> "string", s |-> <<>>]
                      [] type = "number" -> [vt |-> "number", s |-> <<"0">>]
                      [] type = "boolean" -> [vt |-> "boolean", s |-> <<"f","a","l","s","e">>]
                      [] OTHER -> VNull

\* keys addNode and renameNodeKey are asked for
RequestedKeys == {<<"a">>, <<"b">>, <<"a", "_", "1">>, <<" ", "a">>, <<" ">>, <<>>}
\* those that are not empty and have no whitespace around them
PlainKeys == {k \in RequestedKeys : k # <<>> /\ Trim(k) = k}

\* the key the deduplication starts from: the requested key without the
\* whitespace around it, 'key' when nothing is left or no key was given
BaseKey(hasKey, key) ==
    IF hasKey /\ Trim(key) # <<>> THEN Trim(key) ELSE DefaultKey

\* addNode on the object parentId appended one child of the type, with the
\* default of the type, and changed no other node and no other child
AddedOneChild(pre, post, parentId, type) ==
    LET nodes == pre.document.nodes
        after == post.document.nodes
        added == DOMAIN after \ DOMAIN nodes
    IN /\ Cardinality(added) = 1
       /\ DOMAIN nodes \subseteq DOMAIN after
       /\ \A id \in DOMAIN nodes \ {parentId} : after[id] = nodes[id]
       /\ after[parentId] = [nodes[parentId] EXCEPT
                                !.children = Append(nodes[parentId].children, CHOOSE id \in added : TRUE)]
       /\ \A id \in added : /\ IsDefaultOf(after[id], type)
                            /\ after[id].id = id
                            /\ after[id].parentId = parentId
                            /\ after[id].hasKey

AddedKey(pre, post) ==
    post.document.nodes[CHOOSE id \in DOMAIN post.document.nodes \ DOMAIN pre.document.nodes : TRUE].key

\* C15 as stated: addNode on an object parent appends exactly one child with
\* the default of its type, changes nothing else, and the child's key is the
\* requested key if no sibling has it, otherwise requested_n for the smallest
\* free n >= 1.
C15_AddNodeRequestedKey ==
    HasDoc(St) =>
        \A parentId \in ObjectIds(St), type \in NodeTypes, key \in RequestedKeys :
            LET post == addNode(St, parentId, type, TRUE, key)
            IN /\ AddedOneChild(St, post, parentId, type)
               /\ DedupOf(AddedKey(St, post), key, SiblingKeys(document.nodes, parentId, NoId))

\* C15, amended: as above, the deduplication starting from the requested key
\* without the whitespace around it, and from 'key' when the key is omitted,
\* empty or only whitespace.
C15_AddNodeObject ==
    HasDoc(St) =>
        \A parentId \in ObjectIds(St), type \in NodeTypes,
           hasKey \in BOOLEAN, key \in RequestedKeys :
            LET post == addNode(St, parentId, type, hasKey, key)
            IN /\ AddedOneChild(St, post, parentId, type)
               /\ DedupOf(AddedKey(St, post), BaseKey(hasKey, key),
                          SiblingKeys(document.nodes, parentId, NoId))

\* "a" was added to an object that had "a": the object has "a" and "a_1", its
\* array is as loaded, and one more "a" gets the suffix 2
C15_Witness ==
    /\ document.rootId = 1
    /\ Len(undoStack) = 1
    /\ undoStack[1].type = "ADD_NODE"
    /\ undoStack[1].node.key = <<"a", "_", "1">>
    /\ {<<"a">>, <<"a", "_", "1">>} \subseteq SiblingKeys(document.nodes, 1, NoId)
    /\ document.nodes[3] = jsonToAst(DocA).nodes[3]
    /\ AddedKey(St, addNode(St, 1, "string", TRUE, <<"a">>)) = <<"a", "_", "2">>

\* the children of object nodes
ObjectChildIds(s) ==
    {id \in DOMAIN s.document.nodes :
        /\ s.document.nodes[id].parentId \in ObjectIds(s)
        /\ s.document.nodes[id].hasKey}

IsPlainKey(k) == k # <<>> /\ Trim(k) = k

\* C16 (rename): renameNodeKey of a child of an object to a non-empty key
\* without surrounding whitespace sets the key to that key when no other
\* sibling has it (the node's own key gets no suffix), otherwise to key_n for
\* the smallest n >= 1 no other sibling has; nothing else in the document
\* changes; the RENAME_KEY command holds the previous key and the applied
\* key; undo gives the previous key back and redo the applied key.
C16_RenameKey ==
    HasDoc(St) =>
        \A id \in ObjectChildIds(St) :
            \A newKey \in {k \in PlainKeys \cup {document.nodes[id].key} : IsPlainKey(k)} :
                LET node == document.nodes[id]
                    post == renameNodeKey(St, id, newKey)
                    applied == post.document.nodes[id].key
                    command == post.undoStack[Len(post.undoStack)]
                IN /\ DedupOf(applied, newKey, SiblingKeys(document.nodes, node.parentId, id))
                   /\ newKey = node.key => applied = node.key
                   /\ post.document.nodes = [document.nodes EXCEPT ![id].key = applied]
                   /\ Committed(CallOf(St, post))
                   /\ command = RenameKeyCmd(id, TRUE, node.key, applied)
                   /\ undo(post).document = document
                   /\ redo(undo(post)).document.nodes[id].key = applied
                   /\ redo(undo(post)).document = post.document

\* "a" was renamed to "b" next to a sibling "b": the command holds "a" and
\* the applied "b_1", and renaming the node to "b_1" again adds no suffix
C16_Witness ==
    /\ Len(undoStack) = 1
    /\ undoStack[1].type = "RENAME_KEY"
    /\ undoStack[1].oldKey = <<"a">>
    /\ undoStack[1].newKey = <<"b", "_", "1">>
    /\ undoStack[1].id \in ObjectChildIds(St)
    /\ document.nodes[undoStack[1].id].key = <<"b", "_", "1">>

\* the list without its element at 0-based position index
RemoveAt(list, index) ==
    SubSeq(list, 1, index) \o SubSeq(list, index + 2, Len(list))

ChildIds(s) ==
    {id \in DOMAIN s.document.nodes : s.document.nodes[id].parentId # NoId}

\* C17 (delete): deleteNode of a non-root node removes the node and all its
\* descendants from nodes, takes the node out of its parent's children while
\* the other children keep their order, leaves every other node unchanged and
\* records the node's index; undo puts the node and its whole subtree back at
\* that index, so the document is the one before the deletion.
C17_DeleteNode ==
    HasDoc(St) =>
        \A id \in ChildIds(St) :
            LET node == document.nodes[id]
                parent == document.nodes[node.parentId]
                index == IndexOf(parent.children, id) - 1
                gone == {id} \cup collectDescendantIds(document.nodes, id)
                post == deleteNode(St, id)
                command == post.undoStack[Len(post.undoStack)]
            IN /\ Committed(CallOf(St, post))
               /\ DOMAIN post.document.nodes = DOMAIN document.nodes \ gone
               /\ post.document.nodes[node.parentId] =
                      [parent EXCEPT !.children = RemoveAt(parent.children, index)]
               /\ \A other \in DOMAIN post.document.nodes \ {node.parentId} :
                      post.document.nodes[other] = document.nodes[other]
               /\ command.type = "DELETE_NODE"
               /\ command.index = index
               /\ command.parentId = node.parentId
               /\ undo(post).document = document

\* the first item of an array of two was deleted; undoing puts it back in
\* front of the item that stayed
C17_Witness ==
    /\ Len(undoStack) = 1
    /\ undoStack[1].type = "DELETE_NODE"
    /\ undoStack[1].index = 0
    /\ undoStack[1].parentId \in DOMAIN document.nodes
    /\ document.nodes[undoStack[1].parentId].type = "array"
    /\ Len(document.nodes[undoStack[1].parentId].children) = 1
    /\ undo(St).document.nodes[undoStack[1].parentId].children =
           <<undoStack[1].node.id>> \o document.nodes[undoStack[1].parentId].children
    /\ \E id \in ChildIds(St) : collectDescendantIds(document.nodes, id) # {}

\* the nodes that have id among their ancestors
Below(nodes, id) == {n \in DOMAIN nodes : id \in AncestorIds(nodes, n)}

\* the values pasted in place of a node: a primitive, containers, an object
\* with an empty key and a nested value
ReplaceValues ==
    {p.value : p \in {q \in PasteInputs : q.valid}}
        \cup {JStr(<<"a">>),
              JObj(<< <<<<>>, JArr(<<JNull>>)>>, <<<<"b">>, JObj(<<>>)>> >>)}

\* C18 (paste, replace): pasteNodeJson(targetId, json, 'replace') keeps the
\* target's id, parentId, key and place among its parent's children, removes
\* every former descendant of the target from nodes, makes the subtree rooted
\* at targetId stand for the parsed value, and leaves every node outside the
\* target's subtree unchanged.
C18_PasteReplace ==
    HasDoc(St) =>
        \A targetId \in DOMAIN document.nodes :
            \A parsed \in ReplaceValues :
                LET target == document.nodes[targetId]
                    former == Below(document.nodes, targetId)
                    outside == DOMAIN document.nodes \ ({targetId} \cup former)
                    post == pasteNodeJson(St, targetId, [valid |-> TRUE, value |-> parsed], "replace")
                    after == post.document.nodes
                IN /\ Committed(CallOf(St, post))
                   /\ targetId \in DOMAIN after
                   /\ after[targetId].id = targetId
                   /\ after[targetId].parentId = target.parentId
                   /\ after[targetId].hasKey = target.hasKey
                   /\ after[targetId].key = target.key
                   /\ former \cap DOMAIN after = {}
                   /\ nodeToJson(after, targetId) = parsed
                   /\ DOMAIN after = outside \cup {targetId} \cup Below(after, targetId)
                   /\ \A other \in outside : after[other] = document.nodes[other]
                   /\ post.document.rootId = document.rootId

\* a replace paste put a container in place of a[0]: the array still lists
\* the node first, and the node has a child that did not exist before
C18_Witness ==
    /\ Len(undoStack) = 1
    /\ undoStack[1].type = "REPLACE_DOCUMENT"
    /\ \E targetId \in DOMAIN document.nodes \cap DOMAIN undoStack[1].before.nodes :
           /\ undoStack[1].before.nodes[targetId].type = "number"
           /\ document.nodes[targetId].type \in ContainerTypes
           /\ document.nodes[targetId].parentId # NoId
           /\ document.nodes[document.nodes[targetId].parentId].type = "array"
           /\ document.nodes[document.nodes[targetId].parentId].children[1] = targetId
           /\ Below(document.nodes, targetId) # {}
           /\ Below(document.nodes, targetId) \cap DOMAIN undoStack[1].before.nodes = {}
    /\ \E id \in DOMAIN document.nodes : \E n \in Below(document.nodes, id) :
           Below(document.nodes, n) # {}

\* C19 (paste, failure): pasteNodeJson with text that is not valid JSON, or
\* with a target that is not in the document, returns ok = false with a
\* reason and leaves document, undoStack, redoStack, isDirty, selectedId and
\* expandedIds as they were.
C19_PasteFailure ==
    \A targetId \in (IF HasDoc(St) THEN DOMAIN document.nodes ELSE PasteTargets) \cup {AbsentId} :
        \A rawJson \in PasteInputs, mode \in PasteModes :
            LET result == pasteNodeJsonResult(St, targetId, rawJson)
                post == pasteNodeJson(St, targetId, rawJson, mode)
                missing == ~HasDoc(St) \/ targetId \notin DOMAIN document.nodes
            IN /\ (~rawJson.valid \/ missing) =>
                      /\ ~result.ok
                      /\ result.reason # ""
                      /\ post.document = document
                      /\ post.undoStack = undoStack
                      /\ post.redoStack = redoStack
                      /\ post.isDirty = isDirty
                      /\ post.selectedId = selectedId
                      /\ post.expandedIds = expandedIds
               /\ (rawJson.valid /\ ~missing) => (result.ok /\ Committed(CallOf(St, post)))

\* a document with history and a selection, where a paste of invalid text
\* and a paste into an absent node fail while a valid paste succeeds
C19_Witness ==
    /\ HasDoc(St)
    /\ Len(undoStack) = 1
    /\ selectedId # NoId
    /\ expandedIds # {}
    /\ \E targetId \in DOMAIN document.nodes :
           /\ ~pasteNodeJsonResult(St, targetId, InvalidJson).ok
           /\ \E rawJson \in PasteInputs :
                  /\ pasteNodeJsonResult(St, targetId, rawJson).ok
                  /\ ~pasteNodeJsonResult(St, AbsentId, rawJson).ok
                  /\ pasteNodeJson(St, targetId, rawJson, "replace") # St
                  /\ pasteNodeJson(St, AbsentId, rawJson, "replace") = St
    /\ pasteNodeJson(St, selectedId, InvalidJson, "append") = St

\* the call pushed exactly one REPLACE_DOCUMENT command; one undo gives back
\* document, selectedId and expandedIds of before the call, and redo those
\* of after it
OneReplaceCommand(call) ==
    LET pre == call.pre
        post == call.post
        undone == undo(post)
        redone == redo(undone)
    IN /\ Len(post.undoStack) = Len(pre.undoStack) + 1
       /\ SubSeq(post.undoStack, 1, Len(pre.undoStack)) = pre.undoStack
       /\ post.undoStack[Len(post.undoStack)].type = "REPLACE_DOCUMENT"
       /\ undone.document = pre.document
       /\ undone.selectedId = pre.selectedId
       /\ undone.expandedIds = pre.expandedIds
       /\ undone.undoStack = pre.undoStack
       /\ redone.document = post.document
       /\ redone.selectedId = post.selectedId
       /\ redone.expandedIds = post.expandedIds

\* the nodes a multi-selection can delete: present and not the root
Deletable(s) ==
    {id \in s.multiSelectedIds \cap DOMAIN s.document.nodes : s.document.nodes[id].parentId # NoId}

\* the nodes the command's two documents do not agree on
ChangedNodes(command) ==
    {n \in DOMAIN command.before.nodes \cup DOMAIN command.after.nodes :
        \/ n \notin DOMAIN command.before.nodes
        \/ n \notin DOMAIN command.after.nodes
        \/ command.before.nodes[n] # command.after.nodes[n]}

\* C20 (bulk operations): each successful bulk operation (a paste of valid
\* text into an existing node, a sort that changes the order, a format, a
\* diff application with at least one entry, a batch deletion with at least
\* one deletable node, an applied replace preview) grows undoStack by exactly
\* one REPLACE_DOCUMENT command; one undo restores document, selectedId and
\* expandedIds of immediately before the operation, and redo those of
\* immediately after it.
C20_BulkOneCommand ==
    HasDoc(St) =>
        /\ \A targetId \in DOMAIN document.nodes :
               \A rawJson \in {q \in PasteInputs : q.valid}, mode \in PasteModes :
                   OneReplaceCommand(CallOf(St, pasteNodeJson(St, targetId, rawJson, mode)))
        /\ \A nodeId \in DOMAIN document.nodes, direction \in {"asc", "desc"} :
               LET call == CallOf(St, sortObjectKeys(St, nodeId, direction))
               IN IF call.post.document # document
                  THEN OneReplaceCommand(call)
                  ELSE call.post = St
        /\ \A mode \in {"pretty", "minify", "sort"} :
               OneReplaceCommand(CallOf(St, formatDocument(St, mode)))
        /\ \A incoming \in IncomingInputs :
               LET entries == diffJson(astToJson(document), incoming)
                   call == CallOf(St, applyDiffSelection(St, entries))
               IN IF Len(entries) > 0 THEN OneReplaceCommand(call) ELSE call.post = St
        /\ \A m \in MultiSelections(St) :
               LET call == CallOf(m, batchDeleteSelected(m))
               IN IF Deletable(m) # {}
                  THEN OneReplaceCommand(call)
                  ELSE call.post.undoStack = m.undoStack /\ call.post.document = m.document
        /\ \A r \in ReplacePreviews(St) :
               LET call == CallOf(r, applyReplacePreview(r))
               IN IF Len(r.replacePreview) > 0 THEN OneReplaceCommand(call) ELSE call.post = r

\* one bulk operation changed several nodes, the selection and the expanded
\* set, and is the only command on the stack; a replace preview with entries
\* can be applied from here
C20_Witness ==
    /\ HasDoc(St)
    /\ Len(undoStack) = 1
    /\ undoStack[1].type = "REPLACE_DOCUMENT"
    /\ Cardinality(ChangedNodes(undoStack[1])) >= 2
    /\ undoStack[1].beforeSelectedId # NoId
    /\ undoStack[1].beforeSelectedId # undoStack[1].afterSelectedId
    /\ undoStack[1].beforeExpandedIds # undoStack[1].afterExpandedIds
    /\ undo(St).expandedIds = undoStack[1].beforeExpandedIds
    /\ \E r \in ReplacePreviews(St) : Len(r.replacePreview) > 0

\* path strings parseJsonPath rejects: no leading $, an empty key, an open
\* bracket, an unclosed quote, a bare word in brackets, text after a segment
MalformedPaths ==
    {<<>>,
     <<"a">>,
     <<"$", ".">>,
     <<"$", "[">>,
     <<"$", "[", "'", "a">>,
     <<"$", "[", "a", "]">>,
     <<"$", ".", "a", " ", "b">>,
     <<"$", "a">>,
     <<"$", "[", "'", "a", "'", "]", "x">>,
     <<"$", "[", "0">>}

\* goToJsonPath and jumpBookmark with a malformed path return ok = false with
\* a reason and leave the state as it was
GoToFailure ==
    \A path \in MalformedPaths :
        /\ ~parseJsonPath(path).ok
        /\ ~goToJsonPathResult(St, path).ok
        /\ goToJsonPathResult(St, path).reason # ""
        /\ ~jumpBookmarkResult(St, path).ok
        /\ jumpBookmarkResult(St, path).reason # ""
        /\ goToJsonPath(St, path) = St
        /\ jumpBookmark(St, path) = St

\* diff entries whose paths all fail to parse
MalformedEntries ==
    {<<DiffEntry(p, "replace", JUndefined, Num("1"))>> : p \in {<<"a">>, <<"$", "[">>}}
        \cup {<<DiffEntry(<<"$", ".">>, "remove", Num("1"), JUndefined),
                DiffEntry(<<"$", "[", "a", "]">>, "add", JUndefined, JNull)>>}

\* C21 (malformed paths): goToJsonPath and jumpBookmark with a malformed path
\* return ok = false with a reason and change neither selectedId nor
\* expandedIds, and applyDiffSelection with entries whose paths all fail to
\* parse changes neither the document nor undoStack.
C21_MalformedPath ==
    /\ GoToFailure
    /\ HasDoc(St) =>
           \A entries \in MalformedEntries :
               /\ applyDiffSelection(St, entries).document = document
               /\ applyDiffSelection(St, entries).undoStack = undoStack

\* node id is where the segments lead from the root: read from the node
\* upwards, the last segment names the node under its parent, and so on up to
\* the root, where no segment is left
RECURSIVE Matches(_, _, _)
Matches(doc, id, segs) ==
    IF id \notin DOMAIN doc.nodes THEN FALSE
    ELSE IF Len(segs) = 0 THEN id = doc.rootId
    ELSE LET node == doc.nodes[id]
             seg == segs[Len(segs)]
         IN /\ node.parentId \in DOMAIN doc.nodes
            /\ LET parent == doc.nodes[node.parentId]
               IN /\ parent.hasChildren
                  /\ IF seg.type = "key"
                     THEN /\ parent.type = "object"
                          /\ node.hasKey
                          /\ node.key = seg.key
                          /\ id \in Range(parent.children)
                     ELSE /\ parent.type = "array"
                          /\ seg.index < Len(parent.children)
                          /\ parent.children[seg.index + 1] = id
            /\ Matches(doc, node.parentId, SubSeq(segs, 1, Len(segs) - 1))

\* segments appended to the path of a node: keys and indexes, present or not
PathSuffixes ==
    {<<>>, <<".", "a">>, <<".", "b">>, <<".", "c">>, <<"[", "'", "a", "'", "]">>,
     <<"[", "0", "]">>, <<"[", "1", "]">>, <<"[", "2", "]">>, <<"[", "9", "]">>,
     <<".", "a", "[", "1", "]">>, <<"[", "0", "]", ".", "a">>}

\* text no segment starts or ends with
PathGarbage ==
    {<<"]">>, <<".">>, <<"[">>, <<" ", "x">>, <<"[", "0", "]", "x">>, <<"[", "'", "a", "]">>,
     <<".", "a", "[", "-", "1", "]">>}

\* C22 (path resolution): resolvePathToNodeId returns a node id only if the
\* whole path parses and every segment matches the document: "$" gives the
\* root; an unparseable remainder after a valid prefix, a key segment on a
\* non-object, an index segment on a non-array, a missing key or an index
\* out of range give null, never the node the prefix leads to.
C22_ResolvePath ==
    HasDoc(St) =>
        /\ resolvePathToNodeId(St, RootPath) = document.rootId
        /\ \A n \in DOMAIN document.nodes :
               /\ \A suffix \in PathSuffixes :
                      LET path == buildJsonPath(St, n) \o suffix
                          parsed == parseJsonPath(path)
                          result == resolvePathToNodeId(St, path)
                      IN /\ parsed.ok
                         /\ IF \E m \in DOMAIN document.nodes : Matches(document, m, parsed.segs)
                            THEN Matches(document, result, parsed.segs)
                            ELSE result = NoId
               /\ \A garbage \in PathGarbage :
                      /\ ~parseJsonPath(buildJsonPath(St, n) \o garbage).ok
                      /\ resolvePathToNodeId(St, buildJsonPath(St, n) \o garbage) = NoId

\* an object with a primitive "b" and an array "a" of one item left after a
\* deletion: $.a[0] resolves, $.a[1] is out of range, $.b[0] indexes a
\* non-array, $.a.b keys a non-object, $.c is missing, $.a[0]x does not parse
C22_Witness ==
    /\ HasDoc(St)
    /\ Len(undoStack) = 1
    /\ undoStack[1].type = "DELETE_NODE"
    /\ resolvePathToNodeId(St, <<"$", ".", "a", "[", "0", "]">>) \in DOMAIN document.nodes
    /\ resolvePathToNodeId(St, <<"$", ".", "a", "[", "1", "]">>) = NoId
    /\ resolvePathToNodeId(St, <<"$", ".", "b">>) \in DOMAIN document.nodes
    /\ resolvePathToNodeId(St, <<"$", ".", "b", "[", "0", "]">>) = NoId
    /\ resolvePathToNodeId(St, <<"$", ".", "a", ".", "b">>) = NoId
    /\ resolvePathToNodeId(St, <<"$", ".", "c">>) = NoId
    /\ resolvePathToNodeId(St, <<"$", ".", "a", "[", "0", "]", "x">>) = NoId
    /\ resolvePathToNodeId(St, <<"$">>) = document.rootId

\* the children of objects whose key is made of digits only
DigitKeyChildren(doc) ==
    {id \in DOMAIN doc.nodes :
        /\ doc.nodes[id].parentId # NoId
        /\ doc.nodes[doc.nodes[id].parentId].type = "object"
        /\ AllDigits(doc.nodes[id].key)}

\* C23 (pointer to path): for every node of a document, the path that
\* jsonPointerToJsonPath makes of the node's JSON Pointer resolves to the
\* node, and the last segment of the path of an object child with a key made
\* of digits is a key segment, not an index segment.
C23_PointerToPath ==
    calcPc = "paths" =>
        /\ \A id \in DOMAIN calcOut[1].nodes :
               resolvePathInDocument(calcOut[1], calcOut[2][id]) = id
        /\ \A id \in DigitKeyChildren(calcOut[1]) :
               LET segs == parseJsonPath(calcOut[2][id]).segs
               IN segs[Len(segs)].type = "key"

\* without the children of objects whose key is made of digits, every
\* translated pointer resolves to its node
PointerToPathOtherKeys ==
    calcPc = "paths" =>
        \A id \in DOMAIN calcOut[1].nodes :
            (\A a \in {id} \cup AncestorIds(calcOut[1].nodes, id) : a \notin DigitKeyChildren(calcOut[1]))
                => resolvePathInDocument(calcOut[1], calcOut[2][id]) = id

\* the document with some of its nodes taken out of the node map, the ids
\* that refer to them left where they are
Danglings(doc) ==
    {[rootId |-> doc.rootId, nodes |-> Without(doc.nodes, S)] : S \in SUBSET DOMAIN doc.nodes}

\* a JSON value: null, a boolean, a number, a string, an array or an object
\* of JSON values
RECURSIVE IsJsonValue(_)
IsJsonValue(v) ==
    /\ v.t \in {"null", "boolean", "number", "string", "array", "object"}
    /\ v.t \in ContainerTypes => \A i \in 1..Len(v.xs) : IsJsonValue(v.xs[i].v)

\* C24 (dangling references): astToJson of a document whose rootId is not in
\* nodes is null; a child id that is not in nodes gives a null element in an
\* array and no entry in an object; the result is a JSON value in every case.
C24_DanglingReferences ==
    calcPc # "value" =>
        \A d \in Danglings(calcOut[1]) :
            /\ IsJsonValue(astToJson(d))
            /\ d.rootId \notin DOMAIN d.nodes => astToJson(d) = JNull
            /\ \A id \in DOMAIN d.nodes :
                   LET node == d.nodes[id]
                       v == serializeNode(d.nodes, id)
                   IN /\ node.type = "array" =>
                          /\ v.t = "array"
                          /\ Len(v.xs) = Len(node.children)
                          /\ \A i \in 1..Len(node.children) :
                                 v.xs[i].v = IF node.children[i] \in DOMAIN d.nodes
                                             THEN serializeNode(d.nodes, node.children[i])
                                             ELSE JNull
                      /\ node.type = "object" =>
                          /\ v.t = "object"
                          /\ \A i \in 1..Len(node.children) :
                                 node.children[i] \notin DOMAIN d.nodes =>
                                     ~HasProp(v, calcOut[1].nodes[node.children[i]].key)
                          /\ Len(v.xs) <= Cardinality(Range(node.children) \cap DOMAIN d.nodes)

\* an object holding an array was parsed: with the array's item taken out
\* the array has a null element, with the array taken out the object has no
\* entry for it, with the root taken out the result is null
C24_Witness ==
    /\ calcPc = "document"
    /\ LET doc == calcOut[1]
       IN /\ doc.nodes[doc.rootId].type = "object"
          /\ \E a \in DOMAIN doc.nodes :
                 /\ doc.nodes[a].type = "array"
                 /\ doc.nodes[a].parentId = doc.rootId
                 /\ Len(doc.nodes[a].children) = 1
                 /\ doc.nodes[doc.nodes[a].children[1]].type # "null"
                 /\ KeyTruthy(doc.nodes[a])
                 /\ LET item == doc.nodes[a].children[1]
                        noItem == [rootId |-> doc.rootId, nodes |-> Without(doc.nodes, {item})]
                        noArray == [rootId |-> doc.rootId, nodes |-> Without(doc.nodes, {a})]
                        noRoot == [rootId |-> doc.rootId, nodes |-> Without(doc.nodes, {doc.rootId})]
                    IN /\ GetProp(astToJson(noItem), doc.nodes[a].key) = JArr(<<JNull>>)
                       /\ ~HasProp(astToJson(noArray), doc.nodes[a].key)
                       /\ HasProp(astToJson(doc), doc.nodes[a].key)
                       /\ astToJson(noRoot) = JNull

\* the keys of the children of an object node that are present and have a
\* key, in children order
RECURSIVE DefinedKeys(_, _, _)
DefinedKeys(nodes, kids, i) ==
    IF i > Len(kids) THEN <<>>
    ELSE IF kids[i] \in DOMAIN nodes /\ nodes[kids[i]].hasKey
         THEN <<nodes[kids[i]].key>> \o DefinedKeys(nodes, kids, i + 1)
         ELSE DefinedKeys(nodes, kids, i + 1)

\* every child with a key is in the object under that key, and nothing else is
ObjectRebuilt(nodes, id) ==
    LET v == serializeNode(nodes, id)
        keys == DefinedKeys(nodes, nodes[id].children, 1)
    IN /\ v.t = "object"
       /\ {v.xs[i].k : i \in 1..Len(v.xs)} = Range(keys)
       /\ \A c \in Range(nodes[id].children) :
              (c \in DOMAIN nodes /\ nodes[c].hasKey) =>
                  /\ HasProp(v, nodes[c].key)
                  /\ GetProp(v, nodes[c].key) = serializeNode(nodes, c)

ArrayRebuilt(nodes, id) ==
    LET v == serializeNode(nodes, id)
    IN /\ v.t = "array"
       /\ Len(v.xs) = Len(nodes[id].children)
       /\ \A i \in 1..Len(v.xs) : v.xs[i].v = serializeNode(nodes, nodes[id].children[i])

\* C25 (rebuilding containers): astToJson leaves a child of an object out only
\* when the child node is missing or has no key; every child with a key, the
\* empty string included, is in the result under that key; arrays are
\* rebuilt in children order.
C25_ContainersRebuilt ==
    calcPc # "value" =>
        \A d \in Danglings(calcOut[1]) :
            \A id \in DOMAIN d.nodes :
                /\ d.nodes[id].type = "object" => ObjectRebuilt(d.nodes, id)
                /\ d.nodes[id].type = "array" => ArrayRebuilt(d.nodes, id)

\* the same for the documents without an empty key
ContainersRebuiltOtherKeys ==
    calcPc # "value" =>
        \A d \in Danglings(calcOut[1]) :
            (\A n \in DOMAIN d.nodes : d.nodes[n].hasKey => d.nodes[n].key # <<>>) =>
                \A id \in DOMAIN d.nodes :
                    /\ d.nodes[id].type = "object" => ObjectRebuilt(d.nodes, id)
                    /\ d.nodes[id].type = "array" => ArrayRebuilt(d.nodes, id)

\* copyNodeJson of the root gives the value astToJson gives for the document
CopyMatchesCodec(s) ==
    /\ copyNodeJson(s, s.document.rootId).copied
    /\ copyNodeJson(s, s.document.rootId).value = astToJson(s.document)

\* the result for a node is the same when only the node and what is below it
\* are kept in the node map
CopyIsLocal(s) ==
    \A id \in DOMAIN s.document.nodes :
        copyNodeJson(s, id).value =
            nodeToJson(Restrict(s.document.nodes, {id} \cup Below(s.document.nodes, id)), id)

\* C26 (copy): copyNodeJson of an absent node is null; otherwise it
\* serializes the subtree as astToJson does: for the document of every
\* reachable state, and for every document that can be loaded, copyNodeJson
\* of the root is the value of astToJson of the document, and the result for
\* a node does not depend on the nodes outside its subtree.
C26_CopyNodeJson ==
    /\ ~copyNodeJson(St, AbsentId).copied
    /\ HasDoc(St) =>
           /\ CopyMatchesCodec(St)
           /\ CopyIsLocal(St)
           /\ \A json \in CodecInputs :
                  LET loaded == setDocumentWithMeta(St, jsonToAst(json), TRUE)
                  IN CopyMatchesCodec(loaded) /\ CopyIsLocal(loaded)

\* the parts that hold: null for an absent node, and locality
CopyAbsentAndLocal ==
    /\ ~copyNodeJson(St, AbsentId).copied
    /\ HasDoc(St) => CopyIsLocal(St)
    /\ ~HasDoc(St) =>
           \A json \in CodecInputs : CopyIsLocal(setDocumentWithMeta(St, jsonToAst(json), TRUE))

\* agreement with astToJson in the reachable states with a document
CopyMatchesCodecReached == HasDoc(St) => CopyMatchesCodec(St)

\* agreement with astToJson for the documents that can be loaded
CopyMatchesCodecLoaded ==
    \A json \in CodecInputs : CopyMatchesCodec(setDocumentWithMeta(St, jsonToAst(json), TRUE))

\* agreement with astToJson where no key is empty and no node of type null
\* holds a value
CopyMatchesCodecOtherwise ==
    HasDoc(St) =>
        ((\A n \in DOMAIN document.nodes :
              /\ document.nodes[n].hasKey => document.nodes[n].key # <<>>
              /\ document.nodes[n].type = "null" => document.nodes[n].value = VNull)
            => CopyMatchesCodec(St))

FirstKey(entry) == parseJsonPath(entry.path).segs[1].key

\* the entries whose path goes through key, in their order
EntriesUnder(entries, key) ==
    SelectSeq(entries, LAMBDA e : Len(parseJsonPath(e.path).segs) > 0 /\ FirstKey(e) = key)

\* the entries of a diff of two values, moved under key
Rerooted(entries, key) ==
    [i \in 1..Len(entries) |->
        [entries[i] EXCEPT !.path = appendKeySegment(<<"$">>, key) \o Tail(entries[i].path)]]

\* the diff of two objects, key by key
ObjectDiff(left, right, entries) ==
    LET leftKeys == Range(ObjKeys(left))
        rightKeys == Range(ObjKeys(right))
    IN /\ \A i \in 1..Len(entries) :
              /\ Len(parseJsonPath(entries[i].path).segs) > 0
              /\ parseJsonPath(entries[i].path).segs[1].type = "key"
              /\ FirstKey(entries[i]) \in leftKeys \cup rightKeys
       /\ \A key \in rightKeys \ leftKeys :
              EntriesUnder(entries, key) =
                  <<DiffEntry(appendKeySegment(<<"$">>, key), "add", JUndefined, GetProp(right, key))>>
       /\ \A key \in leftKeys \ rightKeys :
              EntriesUnder(entries, key) =
                  <<DiffEntry(appendKeySegment(<<"$">>, key), "remove", GetProp(left, key), JUndefined)>>
       /\ \A key \in leftKeys \cap rightKeys :
              EntriesUnder(entries, key) =
                  Rerooted(diffJson(GetProp(left, key), GetProp(right, key)), key)
       /\ \A i \in 1..Len(entries), j \in 1..Len(entries) :
              i < j => ~CodeUnitLess(FirstKey(entries[j]), FirstKey(entries[i]))

Orderings(seq) ==
    {[i \in 1..Len(seq) |-> seq[p[i]]] :
        p \in {q \in [1..Len(seq) -> 1..Len(seq)] : \A i, j \in 1..Len(seq) : q[i] = q[j] => i = j}}

\* C29 (order of application): for the entries of diffJson(a, b),
\* applyDiffEntries(a, entries) gives the same value for every ordering of
\* the entries.
C29_OrderIndependent ==
    calcPc = "applied" =>
        \A ordered \in Orderings(calcOut[1]) :
            DeepEqual(applyDiffEntries(calcIn[1], ordered), calcOut[2])

\* the same for the diffs that remove at most one array element
OrderIndependentOtherwise ==
    (/\ calcPc = "applied"
     /\ Cardinality({i \in 1..Len(calcOut[1]) :
                        /\ calcOut[1][i].kind = "remove"
                        /\ LET segs == parseJsonPath(calcOut[1][i].path).segs
                           IN segs[Len(segs)].type = "index"}) <= 1)
        => \A ordered \in Orderings(calcOut[1]) :
               DeepEqual(applyDiffEntries(calcIn[1], ordered), calcOut[2])

\* C30 (update): updateNodeValue on an existing node pushes exactly one
\* UPDATE_VALUE command, clears redoStack and sets isDirty, also when the
\* value is the one the node has; only the value of that node changes: its
\* type, key and children and every other node stay as they were.
C30_UpdateNodeValue ==
    HasDoc(St) =>
        \A id \in DOMAIN document.nodes :
            \A value \in ValueInputs \cup {document.nodes[id].value} :
                LET node == document.nodes[id]
                    post == updateNodeValue(St, id, value)
                IN /\ post.undoStack = Append(undoStack, UpdateValueCmd(id, node.value, value))
                   /\ post.redoStack = <<>>
                   /\ post.isDirty
                   /\ post.document.rootId = document.rootId
                   /\ DOMAIN post.document.nodes = DOMAIN document.nodes
                   /\ post.document.nodes[id] = [node EXCEPT !.value = value]
                   /\ \A other \in DOMAIN document.nodes \ {id} :
                          post.document.nodes[other] = document.nodes[other]
                   /\ undo(post).document = document

\* a number node was given a string: it is still of type number, the one
\* command is on the stack, and giving it the same string again pushes a
\* second command
C30_Witness ==
    /\ HasDoc(St)
    /\ Len(undoStack) = 1
    /\ undoStack[1].type = "UPDATE_VALUE"
    /\ redoStack = <<>>
    /\ isDirty
    /\ undoStack[1].id \in DOMAIN document.nodes
    /\ document.nodes[undoStack[1].id].type = "number"
    /\ document.nodes[undoStack[1].id].value = undoStack[1].newValue
    /\ undoStack[1].newValue.vt = "string"
    /\ Len(updateNodeValue(St, undoStack[1].id, undoStack[1].newValue).undoStack) = 2


\* C31: changeNodeType(id, t) with t other than the node's type keeps the
\* node's id, parentId and key and every node that is not below it (its
\* parent's children list included), sets type to t, value to t's default,
\* children to [] exactly when t is a container, removes every former
\* descendant from nodes, and leaves id expanded when t is a container
C31_ChangeNodeType ==
    HasDoc(St) =>
        \A id \in DOMAIN document.nodes :
            \A t \in NodeTypes \ {document.nodes[id].type} :
                LET node == document.nodes[id]
                    post == changeNodeType(St, id, t)
                    now == post.document.nodes
                IN /\ id \in DOMAIN now
                   /\ now[id].id = node.id
                   /\ now[id].parentId = node.parentId
                   /\ now[id].hasKey = node.hasKey
                   /\ now[id].key = node.key
                   /\ now[id].type = t
                   /\ now[id].value = TypeDefaultValue(t)
                   /\ now[id].hasChildren = (t \in ContainerTypes)
                   /\ now[id].children = <<>>
                   /\ DOMAIN now = DOMAIN document.nodes \ Below(document.nodes, id)
                   /\ \A other \in DOMAIN now \ {id} : now[other] = document.nodes[other]
                   /\ post.document.rootId = document.rootId
                   /\ t \in ContainerTypes => id \in post.expandedIds
                   /\ post.expandedIds \cap Below(document.nodes, id) = {}

\* an array with children was turned into an object: it is empty and
\* expanded, its former items are gone from the arena, and it is still a
\* child of its parent
C31_Witness ==
    /\ HasDoc(St)
    /\ Len(undoStack) = 1
    /\ undoStack[1].type = "CHANGE_TYPE"
    /\ undoStack[1].oldNode.type = "array"
    /\ undoStack[1].oldNode.children # <<>>
    /\ undoStack[1].id \in DOMAIN document.nodes
    /\ document.nodes[undoStack[1].id].type = "object"
    /\ document.nodes[undoStack[1].id].children = <<>>
    /\ undoStack[1].id \in expandedIds
    /\ Range(undoStack[1].oldNode.children) \cap DOMAIN document.nodes = {}
    /\ undoStack[1].id \in Range(document.nodes[document.nodes[undoStack[1].id].parentId].children)


\* the values grafted onto a container: a primitive, arrays of one and of two
\* items, objects whose keys are taken, free or empty
GraftValues ==
    ReplaceValues \cup {JArr(<<JBool(TRUE), JArr(<<JNull>>)>>),
                        JObj(<< <<<<"a">>, JNull>>, <<<<"c">>, JStr(<<"a">>)>> >>)}

\* the values one graft adds, in order: the items of an array appended onto
\* an array, the values of an object appended onto an object, else the value
GraftedValues(target, parsed, mode) ==
    IF mode = "append" /\ target.type = "array" /\ isArray(parsed)
    THEN [i \in 1..Len(parsed.xs) |-> parsed.xs[i].v]
    ELSE IF mode = "append" /\ target.type = "object" /\ isObject(parsed)
    THEN [i \in 1..Len(parsed.xs) |-> parsed.xs[i].v]
    ELSE <<parsed>>

\* C32 (paste, append and insert): on an object or array target the new
\* children list is the old list followed by one new node per grafted value,
\* in order; every node that was there is unchanged but for the target's
\* children list; under an object the new keys are distinct from the keys
\* already there and from each other. On a primitive target every mode gives
\* what 'replace' gives.
C32_PasteAppend ==
    HasDoc(St) =>
        \A targetId \in DOMAIN document.nodes :
            \A parsed \in GraftValues, mode \in {"append", "insert"} :
                LET target == document.nodes[targetId]
                    rawJson == [valid |-> TRUE, value |-> parsed]
                    post == pasteNodeJson(St, targetId, rawJson, mode)
                    after == post.document.nodes
                    values == GraftedValues(target, parsed, mode)
                    kids == after[targetId].children
                    old == Len(target.children)
                IN IF target.type \notin ContainerTypes
                   THEN post = pasteNodeJson(St, targetId, rawJson, "replace")
                   ELSE /\ Committed(CallOf(St, post))
                        /\ Len(kids) = old + Len(values)
                        /\ SubSeq(kids, 1, old) = target.children
                        /\ after[targetId] = [target EXCEPT !.children = kids]
                        /\ \A id \in DOMAIN document.nodes \ {targetId} :
                               id \in DOMAIN after /\ after[id] = document.nodes[id]
                        /\ \A i \in 1..Len(values) :
                               /\ kids[old + i] \notin DOMAIN document.nodes
                               /\ kids[old + i] \in DOMAIN after
                               /\ after[kids[old + i]].parentId = targetId
                               /\ nodeToJson(after, kids[old + i]) = values[i]
                               /\ \A j \in 1..Len(kids) : kids[j] = kids[old + i] => j = old + i
                        /\ target.type = "object" =>
                               \A i \in 1..Len(values) :
                                   /\ after[kids[old + i]].hasKey
                                   /\ \A j \in 1..Len(kids) :
                                          (after[kids[j]].hasKey
                                             /\ after[kids[j]].key = after[kids[old + i]].key)
                                              => j = old + i
                        /\ DOMAIN after = DOMAIN document.nodes
                               \cup UNION {{kids[old + i]} \cup Below(after, kids[old + i]) :
                                              i \in 1..Len(values)}

\* {"a": null} was appended onto the root object, which had the keys b and
\* a: the root has its two former children first and a third one, a_1 = null
C32_Witness ==
    /\ HasDoc(St)
    /\ Len(undoStack) = 1
    /\ undoStack[1].type = "REPLACE_DOCUMENT"
    /\ document.rootId \in DOMAIN undoStack[1].before.nodes
    /\ LET kids == document.nodes[document.rootId].children
           before == undoStack[1].before.nodes[document.rootId].children
       IN /\ Len(before) = 2
          /\ Len(kids) = 3
          /\ SubSeq(kids, 1, 2) = before
          /\ document.nodes[kids[2]].key = <<"a">>
          /\ document.nodes[kids[3]].key = <<"a", "_", "1">>
          /\ document.nodes[kids[3]].type = "null"
          /\ \A i \in 1..2 : document.nodes[kids[i]] = undoStack[1].before.nodes[kids[i]]

\* the state with another multi-selection
WithMultiSelection(ids) == [St EXCEPT !.multiSelectedIds = ids]

\* the multi-selections looked at: the current one, and every set of at most
\* two ids, the root and an id that is not in the document included
BatchSelections ==
    {multiSelectedIds}
        \cup {ids \in SUBSET (DOMAIN document.nodes \cup {AbsentId}) : Cardinality(ids) <= 2}

\* the elements of list that are not in removed, in their order
Surviving(list, removed) ==
    LET Stays(c) == c \notin removed IN SelectSeq(list, Stays)

\* C33 (batch deletion): batchDeleteSelected removes exactly the
\* multi-selected nodes other than the root together with everything below
\* them, keeps every other node as it was but for the removed ids taken out
\* of its children list, empties multiSelectedIds, sets selectedId to null
\* when the selected node was removed, leaves no removed id in expandedIds;
\* when nothing selected can be deleted document and history are unchanged
C33_BatchDelete ==
    HasDoc(St) =>
        \A ids \in BatchSelections :
            LET pre == WithMultiSelection(ids)
                post == batchDeleteSelected(pre)
                nodes == document.nodes
                after == post.document.nodes
                chosen == Deletable(pre)
                removed == chosen \cup UNION {Below(nodes, id) : id \in chosen}
            IN /\ post.multiSelectedIds = {}
               /\ post.document.rootId = document.rootId
               /\ document.rootId \in DOMAIN after
               /\ DOMAIN after = DOMAIN nodes \ removed
               /\ \A id \in DOMAIN after :
                      after[id] = [nodes[id] EXCEPT !.children = Surviving(nodes[id].children, removed)]
               /\ post.selectedId = (IF selectedId \in removed THEN NoId ELSE selectedId)
               /\ post.expandedIds \cap removed = {}
               /\ post.expandedIds \subseteq expandedIds \cup {document.rootId}
               /\ IF chosen = {}
                  THEN /\ post.document = document
                       /\ post.undoStack = undoStack
                       /\ post.redoStack = redoStack
                       /\ post.isDirty = isDirty
                  ELSE Committed(CallOf(pre, post))

\* a multi-selection was deleted in one command: an array and its items are
\* gone from the arena, the parent lists the surviving sibling only, nothing
\* is multi-selected and no removed id is expanded
C33_Witness ==
    /\ HasDoc(St)
    /\ Len(undoStack) = 1
    /\ undoStack[1].type = "REPLACE_DOCUMENT"
    /\ multiSelectedIds = {}
    /\ \E id \in DOMAIN undoStack[1].before.nodes \ DOMAIN document.nodes :
           LET gone == undoStack[1].before.nodes[id]
           IN /\ gone.type = "array"
              /\ gone.children # <<>>
              /\ Range(gone.children) \cap DOMAIN document.nodes = {}
              /\ gone.parentId \in DOMAIN document.nodes
              /\ Len(document.nodes[gone.parentId].children) = 1
              /\ Len(undoStack[1].before.nodes[gone.parentId].children) = 2
    /\ expandedIds \subseteq DOMAIN document.nodes

\* the keys of the ids of list, '' for a child without key
KeysAlong(nodes, list) ==
    [i \in 1..Len(list) |-> IF list[i] \in DOMAIN nodes /\ nodes[list[i]].hasKey
                            THEN nodes[list[i]].key ELSE <<>>]

\* keys is in the order of direction under localeCompare
InKeyOrder(keys, direction) ==
    \A i \in 1..Len(keys), j \in 1..Len(keys) :
        i < j => IF direction = "desc" THEN localeCompare(keys[i], keys[j]) >= 0
                 ELSE localeCompare(keys[i], keys[j]) <= 0

\* b is a permutation of a
IsPermutation(a, b) ==
    /\ Len(a) = Len(b)
    /\ \A x \in Range(a) \cup Range(b) :
           Cardinality({i \in 1..Len(a) : a[i] = x}) = Cardinality({i \in 1..Len(b) : b[i] = x})

\* C34 (sort keys): sortObjectKeys(id, direction) on an object node makes its
\* children list a permutation of the former list in key order (ascending, or
\* descending for 'desc') and changes no other node; it changes nothing at
\* all (document, undoStack, redoStack, isDirty) when the children are
\* already in the requested order or the node is not an object
C34_SortObjectKeys ==
    HasDoc(St) =>
        \A nodeId \in DOMAIN document.nodes \cup {AbsentId}, direction \in {"asc", "desc"} :
            LET post == sortObjectKeys(St, nodeId, direction)
                nodes == document.nodes
                after == post.document.nodes
            IN IF nodeId \notin DOMAIN nodes \/ nodes[nodeId].type # "object"
               THEN post = St
               ELSE /\ DOMAIN after = DOMAIN nodes
                    /\ post.document.rootId = document.rootId
                    /\ \A other \in DOMAIN nodes \ {nodeId} : after[other] = nodes[other]
                    /\ after[nodeId] = [nodes[nodeId] EXCEPT !.children = after[nodeId].children]
                    /\ IsPermutation(nodes[nodeId].children, after[nodeId].children)
                    /\ InKeyOrder(KeysAlong(after, after[nodeId].children), direction)
                    /\ IF InKeyOrder(KeysAlong(nodes, nodes[nodeId].children), direction)
                       THEN post = St
                       ELSE Committed(CallOf(St, post))

\* an object with the keys b, a was sorted ascending: the same two children
\* are listed in the other order, a first, and sorting it again in either
\* direction is told apart: 'asc' changes nothing, 'desc' commits
C34_Witness ==
    /\ HasDoc(St)
    /\ Len(undoStack) = 1
    /\ undoStack[1].type = "REPLACE_DOCUMENT"
    /\ DOMAIN undoStack[1].before.nodes = DOMAIN document.nodes
    /\ LET kids == document.nodes[document.rootId].children
           before == undoStack[1].before.nodes[document.rootId].children
       IN /\ Len(kids) = 2
          /\ before = <<kids[2], kids[1]>>
          /\ KeysAlong(document.nodes, kids) = << <<"a">>, <<"b">> >>
    /\ sortObjectKeys(St, document.rootId, "asc") = St
    /\ Len(sortObjectKeys(St, document.rootId, "desc").undoStack) = 2

\* where a node is: the positions among siblings from the root down
RECURSIVE PlacePath(_, _)
PlacePath(nodes, id) ==
    LET parentId == nodes[id].parentId
    IN IF parentId = NoId \/ parentId \notin DOMAIN nodes THEN <<>>
       ELSE Append(PlacePath(nodes, parentId), IndexOf(nodes[parentId].children, id))

\* where a node is, whatever the order of object keys: the key under an
\* object, the position under an array
RECURSIVE KeyPath(_, _)
KeyPath(nodes, id) ==
    LET parentId == nodes[id].parentId
    IN IF parentId = NoId \/ parentId \notin DOMAIN nodes THEN <<>>
       ELSE Append(KeyPath(nodes, parentId),
                   IF nodes[parentId].type = "object"
                   THEN [key |-> nodes[id].key, index |-> 0]
                   ELSE [key |-> <<>>, index |-> IndexOf(nodes[parentId].children, id)])

\* what a document holds, ids left out: path, type, key and value of each node
ContentByPlace(doc) ==
    {[path |-> PlacePath(doc.nodes, id), type |-> doc.nodes[id].type,
      hasKey |-> doc.nodes[id].hasKey, key |-> doc.nodes[id].key,
      value |-> doc.nodes[id].value] : id \in DOMAIN doc.nodes}

ContentByKey(doc) ==
    {[path |-> KeyPath(doc.nodes, id), type |-> doc.nodes[id].type,
      hasKey |-> doc.nodes[id].hasKey, key |-> doc.nodes[id].key,
      value |-> doc.nodes[id].value] : id \in DOMAIN doc.nodes}

\* each format pushes exactly one command and sets isDirty
FormatCommits ==
    HasDoc(St) =>
        \A mode \in {"pretty", "minify", "sort"} :
            /\ OneReplaceCommand(CallOf(St, formatDocument(St, mode)))
            /\ formatDocument(St, mode).isDirty

\* the content of s.document is what it was after each of the three formats
FormatKeepsContent(s) ==
    /\ \A mode \in {"pretty", "minify"} :
           ContentByPlace(formatDocument(s, mode).document) = ContentByPlace(s.document)
    /\ ContentByKey(formatDocument(s, "sort").document) = ContentByKey(s.document)

\* C35 (format): formatDocument('pretty') and formatDocument('minify') leave
\* the content of the document as it was (the same type, key and value at
\* every path, only ids change), formatDocument('sort') changes nothing but
\* the order of object keys, and each call pushes exactly one command and
\* sets isDirty: for the document of every reachable state and for every
\* document that can be loaded
C35_FormatDocument ==
    HasDoc(St) =>
        /\ FormatKeepsContent(St)
        /\ \A json \in CodecInputs :
               FormatKeepsContent(setDocumentWithMeta(St, jsonToAst(json), TRUE))
        /\ FormatCommits

\* the content is kept for the documents that can be loaded and have no
\* empty key
FormatKeepsContentLoaded ==
    HasDoc(St) =>
        \A json \in CodecInputs :
            LET loaded == setDocumentWithMeta(St, jsonToAst(json), TRUE)
            IN (\A n \in DOMAIN loaded.document.nodes : loaded.document.nodes[n].key # <<>>
                                                          \/ ~loaded.document.nodes[n].hasKey)
                   => FormatKeepsContent(loaded)

\* a node as jsonToAst builds it: the value agrees with the type, a key is
\* there exactly under an object and is not empty
AsParsed(nodes, n) ==
    /\ nodes[n].type \in ContainerTypes => nodes[n].value = VNull
    /\ nodes[n].type \notin ContainerTypes => nodes[n].value.vt = nodes[n].type
    /\ nodes[n].hasKey => nodes[n].key # <<>>
    /\ nodes[n].hasKey <=> (nodes[n].parentId \in DOMAIN nodes
                              /\ nodes[nodes[n].parentId].type = "object")

\* the content is kept in the reachable states whose nodes are all as
\* jsonToAst builds them
FormatKeepsContentOtherwise ==
    HasDoc(St) =>
        ((\A n \in DOMAIN document.nodes : AsParsed(document.nodes, n))
            => FormatKeepsContent(St))


\* how often id occurs in the children lists of nodes
Occurrences(nodes, id) ==
    LET at == UNION {{<<n, i>> : i \in {j \in 1..Len(nodes[n].children) :
                                             nodes[n].children[j] = id}} : n \in DOMAIN nodes}
    IN Cardinality(at)

\* the ids reached from the ids of frontier through children lists
RECURSIVE ReachedFrom(_, _, _)
ReachedFrom(nodes, seen, frontier) ==
    IF frontier = {} THEN seen
    ELSE LET next == UNION {Range(nodes[n].children) : n \in frontier \cap DOMAIN nodes}
         IN ReachedFrom(nodes, seen \cup frontier, next \ (seen \cup frontier))

NoOrphans(doc) ==
    /\ DOMAIN doc.nodes \subseteq ReachedFrom(doc.nodes, {}, {doc.rootId})
    /\ \A id \in DOMAIN doc.nodes : Occurrences(doc.nodes, id) <= 1
    /\ Occurrences(doc.nodes, doc.rootId) = 0

\* C36 (no orphans): in every reachable state, and after every further
\* mutation called in it, every node of nodes is reached from rootId through
\* children lists, and every id is in at most one children list and at most
\* once in it
C36_NoOrphans ==
    HasDoc(St) =>
        /\ NoOrphans(document)
        /\ \A call \in MutationCalls(St) :
               /\ NoOrphans(call.post.document)
               /\ NoOrphans(undo(call.post).document)
               /\ NoOrphans(redo(undo(call.post)).document)

\* the change of type of an array with items was undone: the array and its
\* items are back in the arena, under the array, and the command can be
\* redone
C36_Witness ==
    /\ HasDoc(St)
    /\ undoStack = <<>>
    /\ Len(redoStack) = 1
    /\ redoStack[1].type = "CHANGE_TYPE"
    /\ DOMAIN redoStack[1].removedSubtree # {}
    /\ DOMAIN redoStack[1].removedSubtree \subseteq DOMAIN document.nodes
    /\ DOMAIN redoStack[1].removedSubtree
           \subseteq ReachedFrom(document.nodes, {}, {redoStack[1].id})
    /\ DOMAIN redoStack[1].removedSubtree \cap DOMAIN redo(St).document.nodes = {}

\* the entry tells what the node of doc holds now
DescribesNode(doc, entry) ==
    /\ entry.id \in DOMAIN doc.nodes
    /\ entry.field = "key" =>
           doc.nodes[entry.id].hasKey /\ doc.nodes[entry.id].key = entry.before
    /\ entry.field = "value" =>
           /\ doc.nodes[entry.id].value.vt = "string"
           /\ doc.nodes[entry.id].value.s = entry.before

\* the preview as buildReplacePreview leaves it describes the document
PreviewDescribesWhenBuilt ==
    HasDoc(St) =>
        \A r \in ReplacePreviews(St) \cup {buildReplacePreview(St)} :
            \A i \in 1..Len(r.replacePreview) : DescribesNode(r.document, r.replacePreview[i])

\* applyReplacePreview leaves alone every node whose entries are all stale
StaleEntriesIgnored ==
    HasDoc(St) =>
        \A id \in DOMAIN document.nodes :
            (\A i \in 1..Len(replacePreview) :
                 replacePreview[i].id = id => ~DescribesNode(document, replacePreview[i]))
                => applyReplacePreview(St).document.nodes[id] = document.nodes[id]

\* C37 (replace preview): every entry of replacePreview names a node of the
\* current document and its `before` is that node's current key or value, so
\* applyReplacePreview overwrites no key or value that was changed after
\* buildReplacePreview
C37_PreviewCurrent ==
    HasDoc(St) =>
        /\ \A i \in 1..Len(replacePreview) : DescribesNode(document, replacePreview[i])
        /\ StaleEntriesIgnored

\* the text written is the one saveFile serialized before its first await,
\* and isDirty is false
SaveWritesItsSerialization ==
    calcPc = "saved" => (~isDirty /\ calcOut = <<calcIn.serialized>>)

\* C38 (save): whenever saveFile has set isDirty to false, the text it wrote
\* is the serialization of the document of that moment, whatever happened
\* between the serialization and the end of the awaited picker and write
C38_SaveFile ==
    calcPc = "saved" => calcOut = <<stringify(astToJson(document), 0)>>

\* a step in which a load goes through although there are unsaved changes
DirtyDocumentReplaced ==
    /\ calcPc \in {"idle", "await file.text()"}
    /\ calcPc' = "idle"
    /\ calcIn'.file # NoFile
    /\ isDirty
    /\ ~isDirty'
    /\ undoStack' = <<>>
    /\ redoStack' = <<>>

\* every load was let through by its own check: the document was not dirty
\* when confirmReplaceIfDirty ran, or the user agreed
LoadPassedItsCheck == calcIn.check.dirty => calcIn.check.confirmed

\* the loads that check and load in one go (createNewDocument, handlePaste)
\* replace a dirty document only when the user agreed
LoadGuardWithoutAwait ==
    [][(DirtyDocumentReplaced /\ calcPc = "idle") => calcIn'.check.confirmed]_vars

\* C39 (load): a document with unsaved changes is replaced by a file load
\* (openFile, handleDrop, handlePaste, createNewDocument) only when the user
\* confirmed discarding them, also when the document is changed between the
\* check and the end of the file read
C39_LoadGuard ==
    [][DirtyDocumentReplaced => calcIn'.check.confirmed]_vars


\* what schemaErrors has to be for the document and the schema as they are
ExpectedSchemaErrors ==
    IF ~calcIn.schemaValidationEnabled \/ ~HasDoc(St) THEN <<>>
    ELSE ValidationErrors(document, calcIn.schemaText, St)

\* the effect has run for the current render and its timer has fired
Settled ==
    /\ calcPc.deps = Deps
    /\ ~calcPc.timer.set
    /\ calcOut = ExpectedSchemaErrors

\* once the effect has run, a pending timer is the one of the current
\* document and schema: the timer of an earlier render was cleared
PendingTimerIsCurrent ==
    (calcPc.deps = Deps /\ calcPc.timer.set) =>
        /\ calcIn.schemaValidationEnabled
        /\ calcPc.timer.document = document
        /\ calcPc.timer.schemaText = calcIn.schemaText

\* C40: debounced schema validation converges.  Under SpecSchemaLive, once
\* the document and the schema text stop changing, schemaErrors eventually
\* equals the validation issues of the current document and schema, each
\* with its nodeId resolved against the current document (and is empty when
\* validation is disabled); and after every change the pending timer is the
\* one scheduled for the current document and schema.
C40_ValidationConverges ==
    /\ [](PendingTimerIsCurrent)
    /\ (~calcIn.editing ~> Settled)

\* the edits have stopped and the panel shows an issue of the current
\* document that points at one of its nodes
C40_Witness ==
    /\ ~calcIn.editing
    /\ Settled
    /\ calcIn.schemaValidationEnabled
    /\ HasDoc(St)
    /\ \E i \in 1..Len(calcOut) : calcOut[i].nodeId # NoId /\ calcOut[i].keyword = "type"

====
